---- MODULE Spec2Model ----
(***************************************************************************)
(* PlumbrC match-and-rewrite engine: Aho-Corasick automata (build, flat    *)
(* and bitmap-compressed tables, search), SSE4.2 trigger pre-filter,       *)
(* pattern set build, and the redactor's per-line pipeline.                *)
(*                                                                         *)
(* Bytes are integers 0..255, C strings are sequences of bytes, C arrays   *)
(* are functions on 0..n-1.  Memory written through memcpy (the compressed *)
(* row buffer) is modelled byte by byte, little-endian, as on the x86      *)
(* targets the SSE code is built for.                                      *)
(***************************************************************************)
EXTENDS Integers, Sequences, FiniteSets, TLC

\* ------------------------------------------------------------------------
\* Program constants (include/config.h) and model bounds
\* ------------------------------------------------------------------------

AC_ALPHABET_SIZE == 256

\* Scaled: the source sets 8 * 1024; every automaton of the model is created
\* with this capacity, as ac_create does with the source's value.
AC_MAX_STATES == 20

INT16_MAX == 32767

PLUMBR_HOT_AC_SIZE == 20

PLUMBR_MAX_MATCHES_PER_LINE == 64

\* sizeof(r->triggers), the K of the SSE4.2 equal-any register
SSE_TRIGGER_MAX == 16

NULL == <<>>

Bytes == 0 .. (AC_ALPHABET_SIZE - 1)

\* ------------------------------------------------------------------------
\* C integer conversions and memory encoding
\* ------------------------------------------------------------------------

\* (int16_t)x for an int32_t x, two's complement wrap
Int16(x) == ((x + 32768) % 65536) - 32768

\* (uint8_t)x
UInt8(x) == x % 256

\* memcpy(row, &v16, 2): the two bytes of an int16_t, little-endian
EncodeInt16(v) == LET u == (v + 65536) % 65536 IN <<u % 256, u \div 256>>

\* memcpy(&v16, row, 2)
DecodeInt16(lo, hi) == LET u == lo + 256 * hi IN IF u >= 32768 THEN u - 65536 ELSE u

\* The array f itself.  Comparing it makes TLC tabulate the function once
\* instead of re-evaluating its defining expression at every index.
Arr(f) == IF f = NULL THEN NULL ELSE f

\* a C array of n elements, all equal to x
ArrFill(n, x) == Arr([i \in 0 .. (n - 1) |-> x])

\* a[n] = x appended behind the n elements of a
ArrPush(a, n, x) == Arr([i \in 0 .. n |-> IF i < n THEN a[i] ELSE x])

\* ------------------------------------------------------------------------
\* Aho-Corasick automaton (src/aho_corasick.c)
\* ------------------------------------------------------------------------

\* A fresh ACState as ac_create / ac_new_state initialise it
NewACState(depth) ==
  [goto_table |-> ArrFill(AC_ALPHABET_SIZE, -1),
   fail |-> 0, output |-> -1, pattern_id |-> 0, depth |-> depth, is_final |-> FALSE]

ac_create ==
  [states |-> ArrFill(1, NewACState(0)),
   num_states |-> 1,
   capacity |-> AC_MAX_STATES,
   num_patterns |-> 0,
   built |-> FALSE,
   force_flat |-> FALSE,
   dfa |-> NULL, meta |-> NULL, root_row |-> NULL,
   compressed |-> NULL, row_index |-> NULL, compressed_size |-> 0]

\* Mutant: the capacity guard is dropped, the state array grows without limit
ac_new_state_unguarded(ac, depth) ==
  [ac |-> [ac EXCEPT !.states = ArrPush(ac.states, ac.num_states, NewACState(depth)),
                     !.num_states = ac.num_states + 1],
   id |-> ac.num_states]

\* ac_new_state: returns the automaton and the new id, or id -1 when out of states
ac_new_state(ac, depth) ==
  IF ac.num_states >= ac.capacity
  THEN [ac |-> ac, id |-> -1]
  ELSE [ac |-> [ac EXCEPT !.states = ArrPush(ac.states, ac.num_states, NewACState(depth)),
                          !.num_states = ac.num_states + 1],
        id |-> ac.num_states]

\* The insertion loop of ac_add_pattern from index i (0-based) in trie state `state`
RECURSIVE ac_add_walk(_, _, _, _, _)
ac_add_walk(ac, pattern, pattern_id, i, state) ==
  IF i >= Len(pattern)
  THEN [ac |-> [ac EXCEPT !.states[state].is_final = TRUE,
                          !.states[state].pattern_id = pattern_id,
                          !.num_patterns = ac.num_patterns + 1],
        ok |-> TRUE]
  ELSE LET c == pattern[i + 1]
           next == ac.states[state].goto_table[c]
       IN IF next # -1
          THEN ac_add_walk(ac, pattern, pattern_id, i + 1, next)
          ELSE LET n == ac_new_state(ac, i + 1)
               IN IF n.id = -1
                  THEN [ac |-> n.ac, ok |-> FALSE]
                  ELSE ac_add_walk([n.ac EXCEPT !.states[state].goto_table[c] = n.id],
                                   pattern, pattern_id, i + 1, n.id)

\* An ac_add_pattern without its two early returns
ac_add_pattern_unchecked(ac, pattern, pattern_id) ==
  ac_add_walk(ac, pattern, pattern_id, 0, 0)

ac_add_pattern(ac, pattern, pattern_id) ==
  IF ac.built THEN [ac |-> ac, ok |-> FALSE]
  ELSE IF Len(pattern) = 0 THEN [ac |-> ac, ok |-> FALSE]
  ELSE ac_add_walk(ac, pattern, pattern_id, 0, 0)

ac_set_force_flat(ac) == [ac EXCEPT !.force_flat = TRUE]

\* The elements of a finite set of integers in ascending order (a C loop
\* `for (c = 0; c < N; c++)` that visits the members of S)
RECURSIVE Ascending(_)
Ascending(S) ==
  IF S = {} THEN <<>>
  ELSE LET m == CHOOSE x \in S : \A y \in S : x <= y
       IN <<m>> \o Ascending(S \ {m})

\* ac_build, step 1: complete the root row, give the root's children fail = 0
\* and queue them in byte order.
ac_build_root(states) ==
  LET row == states[0].goto_table
      kids == {c \in Bytes : row[c] # -1}
  IN [states |-> Arr([i \in DOMAIN states |->
                    IF i = 0
                    THEN [states[0] EXCEPT !.goto_table =
                            Arr([c \in Bytes |-> IF row[c] # -1 THEN row[c] ELSE 0])]
                    ELSE IF \E c \in kids : row[c] = i
                    THEN [states[i] EXCEPT !.fail = 0]
                    ELSE states[i]]),
      queue |-> Arr([k \in 1 .. Cardinality(kids) |-> row[Ascending(kids)[k]]])]

\* Mutant: no DFA completion, the missing transitions of a row stay -1 and
\* the children get no failure link
ac_build_visit_nofill(states, r) ==
  LET row == states[r].goto_table
      kids == {c \in Bytes : row[c] # -1}
  IN [states |-> Arr([i \in DOMAIN states |->
                    IF \E c \in kids : row[c] = i
                    THEN [states[i] EXCEPT !.fail = 0]
                    ELSE states[i]]),
      pushed |-> Arr([k \in 1 .. Cardinality(kids) |-> row[Ascending(kids)[k]]])]

\* Mutant: DFA completion copies the root's row instead of the failure state's
ac_build_visit_rootcopy(states, r) ==
  LET row == states[r].goto_table
      f == states[r].fail
      kids == {c \in Bytes : row[c] # -1}
      failOf(c) == states[f].goto_table[c]
      outOf(c) == IF states[failOf(c)].is_final THEN failOf(c)
                  ELSE states[failOf(c)].output
      kidByte(i) == CHOOSE c \in kids : row[c] = i
  IN [states |-> Arr([i \in DOMAIN states |->
                    IF i = r
                    THEN [states[r] EXCEPT !.goto_table =
                            Arr([c \in Bytes |-> IF row[c] # -1 THEN row[c]
                                             ELSE states[0].goto_table[c]])]
                    ELSE IF \E c \in kids : row[c] = i
                    THEN [states[i] EXCEPT !.fail = failOf(kidByte(i)),
                                           !.output = outOf(kidByte(i))]
                    ELSE states[i]]),
      pushed |-> Arr([k \in 1 .. Cardinality(kids) |-> row[Ascending(kids)[k]]])]

\* ac_build, step 2, the body of the while loop for one popped state r.  The
\* iterations of its `for c` loop read only rows and fields no iteration of
\* the same loop writes (the row of fail(r), is_final/output of states at most
\* as deep as r), so they are taken together.
ac_build_visit(states, r) ==
  LET row == states[r].goto_table
      f == states[r].fail
      kids == {c \in Bytes : row[c] # -1}
      failOf(c) == states[f].goto_table[c]
      outOf(c) == IF states[failOf(c)].is_final THEN failOf(c)
                  ELSE states[failOf(c)].output
      kidByte(i) == CHOOSE c \in kids : row[c] = i
  IN [states |-> Arr([i \in DOMAIN states |->
                    IF i = r
                    THEN [states[r] EXCEPT !.goto_table =
                            Arr([c \in Bytes |-> IF row[c] # -1 THEN row[c]
                                             ELSE states[f].goto_table[c]])]
                    ELSE IF \E c \in kids : row[c] = i
                    THEN [states[i] EXCEPT !.fail = failOf(kidByte(i)),
                                           !.output = outOf(kidByte(i))]
                    ELSE states[i]]),
      pushed |-> Arr([k \in 1 .. Cardinality(kids) |-> row[Ascending(kids)[k]]])]

\* ac_build, step 2: the BFS over the queue (head is 1-based into queue)
RECURSIVE ac_build_bfs(_, _, _)
ac_build_bfs(states, queue, head) ==
  IF head > Len(queue) THEN states
  ELSE LET v == ac_build_visit(states, queue[head])
       IN ac_build_bfs(v.states, queue \o v.pushed, head + 1)

\* ac_build, step 3: the metadata array
ac_build_meta(states, ns) ==
  Arr([s \in 0 .. (ns - 1) |->
     [output |-> states[s].output, pattern_id |-> states[s].pattern_id,
      depth |-> states[s].depth, is_final |-> states[s].is_final]])

\* ac_build, force_flat branch: dfa[s * 256 + c] = (int16_t)goto_table[c]
ac_build_flat(states, ns) ==
  Arr([k \in 0 .. (ns * AC_ALPHABET_SIZE - 1) |->
     Int16(states[k \div AC_ALPHABET_SIZE].goto_table[k % AC_ALPHABET_SIZE])])

\* ac_build, compressed branch: the flat row of the root
ac_build_root_row(states) ==
  Arr([c \in Bytes |-> Int16(states[0].goto_table[c])])

RowCount(row, t) == Cardinality({c \in Bytes : row[c] = t})

\* The majority scan of ac_build (lines 338-353) from byte c on
RECURSIVE ac_default_scan(_, _, _, _)
ac_default_scan(row, c, candidate, candidate_count) ==
  IF c >= AC_ALPHABET_SIZE THEN candidate
  ELSE LET t == row[c]
           cnt == RowCount(row, t)
       IN IF t # candidate /\ cnt > candidate_count
          THEN IF cnt > 128 THEN t
               ELSE ac_default_scan(row, c + 1, t, cnt)
          ELSE ac_default_scan(row, c + 1, candidate, candidate_count)

\* The default target of one state's row (lines 327-356)
ac_default_target(row) ==
  LET candidate == row[0]
      candidate_count == RowCount(row, candidate)
  IN IF candidate_count <= 128
     THEN ac_default_scan(row, 0, candidate, candidate_count)
     ELSE candidate

\* The number of non-default transitions of a row, as the uint8_t num_trans
ac_num_trans(row) ==
  LET candidate == ac_default_target(row)
  IN UInt8(Cardinality({c \in Bytes : row[c] # candidate}))

\* First pass of the compressed build: row_index.  The offset of a row is
\* total_compressed so far: 2 (default) + 32 (bitmap) + num_trans * 2 per row.
ac_build_row_index(states, ns) ==
  LET num_trans == Arr([s \in 0 .. (ns - 1) |->
                          IF s = 0 THEN 0 ELSE ac_num_trans(states[s].goto_table)])
      offset[s \in 0 .. (ns - 1)] ==
        IF s <= 1 THEN 0 ELSE offset[s - 1] + 2 + 32 + num_trans[s - 1] * 2
  IN Arr([s \in 0 .. (ns - 1) |->
            [offset |-> offset[s], num_transitions |-> num_trans[s]]])

\* total_compressed after the first pass
ac_total_compressed(row_index, ns) ==
  IF ns <= 1 THEN 0
  ELSE row_index[ns - 1].offset + 2 + 32 + row_index[ns - 1].num_transitions * 2

\* The 32 bitmap bytes: bit (c & 63) of word (c >> 6) is bit (c % 8) of byte
\* (c \div 8) in little-endian memory
BitmapByte(row, def, k) ==
  LET b(j) == IF row[8 * k + j] # def THEN 1 ELSE 0
  IN b(0) + 2 * b(1) + 4 * b(2) + 8 * b(3) + 16 * b(4) + 32 * b(5) + 64 * b(6) + 128 * b(7)

\* Mutant: the packed transitions are written in descending byte order
ac_row_image_reversed(row) ==
  LET def == ac_default_target(row)
      nd == Ascending({c \in Bytes : row[c] # def})
      n == Len(nd)
  IN Arr([k \in 1 .. (34 + 2 * n) |->
        IF k <= 2 THEN EncodeInt16(Int16(def))[k]
        ELSE IF k <= 34 THEN BitmapByte(row, def, k - 3)
        ELSE EncodeInt16(Int16(row[nd[n - ((k - 35) \div 2)]]))[((k - 35) % 2) + 1]])

\* Second pass: the bytes of one compressed row,
\*   [default_state:2B] [bitmap:32B] [transitions:N*2B]
ac_row_image(row) ==
  LET def == ac_default_target(row)
      nd == Ascending({c \in Bytes : row[c] # def})
  IN Arr([k \in 1 .. (34 + 2 * Len(nd)) |->
        IF k <= 2 THEN EncodeInt16(Int16(def))[k]
        ELSE IF k <= 34 THEN BitmapByte(row, def, k - 3)
        ELSE EncodeInt16(Int16(row[nd[((k - 35) \div 2) + 1]]))[((k - 35) % 2) + 1]])

\* Second pass over the states s..ns-1: each row written at its own offset
\* into the buffer (a fresh arena block, zero-filled by mmap)
RECURSIVE ac_fill_compressed(_, _, _, _, _)
ac_fill_compressed(buf, states, row_index, s, ns) ==
  IF s >= ns THEN buf
  ELSE LET off == row_index[s].offset
           img == ac_row_image(states[s].goto_table)
       IN ac_fill_compressed(
            Arr([i \in DOMAIN buf |->
               IF i >= off /\ i < off + Len(img) THEN img[i - off + 1] ELSE buf[i]]),
            states, row_index, s + 1, ns)

\* ac_build: [ac, ok]
ac_build(ac) ==
  IF ac.built THEN [ac |-> ac, ok |-> TRUE]
  ELSE
    LET r1 == ac_build_root(ac.states)
        states == ac_build_bfs(r1.states, r1.queue, 1)
        ns == ac.num_states
        withStates == [ac EXCEPT !.states = states]
    IN IF ns > INT16_MAX
       THEN [ac |-> withStates, ok |-> FALSE]
       ELSE IF ac.force_flat
       THEN [ac |-> [withStates EXCEPT !.meta = ac_build_meta(states, ns),
                                       !.dfa = ac_build_flat(states, ns),
                                       !.root_row = NULL,
                                       !.compressed = NULL,
                                       !.row_index = NULL,
                                       !.built = TRUE],
             ok |-> TRUE]
       ELSE LET ridx == ac_build_row_index(states, ns)
                total == ac_total_compressed(ridx, ns)
            IN [ac |-> [withStates EXCEPT
                          !.meta = ac_build_meta(states, ns),
                          !.root_row = ac_build_root_row(states),
                          !.row_index = ridx,
                          !.compressed = ac_fill_compressed(ArrFill(total, 0), states,
                                                            ridx, 1, ns),
                          !.compressed_size = total,
                          !.dfa = NULL,
                          !.built = TRUE],
                ok |-> TRUE]

\* Bit `bit` of 64-bit bitmap word `word` of the row at byte offset `row`
BmBit(compressed, row, word, bit) ==
  (compressed[row + 2 + 8 * word + (bit \div 8)] \div (2 ^ (bit % 8))) % 2 = 1

\* __builtin_popcountll(bm[word] & ((1ULL << below) - 1)); below = 64 for the whole word
BmPopcount(compressed, row, word, below) ==
  Cardinality({b \in 0 .. (below - 1) : BmBit(compressed, row, word, b)})

RECURSIVE BmPopcountWords(_, _, _)
BmPopcountWords(compressed, row, word) ==
  IF word <= 0 THEN 0
  ELSE BmPopcountWords(compressed, row, word - 1) + BmPopcount(compressed, row, word - 1, 64)

\* compressed_lookup
compressed_lookup(compressed, idx, state, c) ==
  LET row == idx[state].offset
      def == DecodeInt16(compressed[row], compressed[row + 1])
      word == c \div 64
      bit == c % 64
  IN IF ~BmBit(compressed, row, word, bit) THEN def
     ELSE LET pos == BmPopcountWords(compressed, row, word)
                     + BmPopcount(compressed, row, word, bit)
          IN DecodeInt16(compressed[row + 34 + 2 * pos], compressed[row + 35 + 2 * pos])

\* One transition of the search loops: the flat table when ac->dfa is set,
\* otherwise the root row for state 0 and compressed_lookup for the rest
ac_step(ac, state, c) ==
  IF ac.dfa # NULL THEN ac.dfa[state * AC_ALPHABET_SIZE + c]
  ELSE IF state = 0 THEN ac.root_row[c]
  ELSE compressed_lookup(ac.compressed, ac.row_index, state, c)

\* The output-chain walk with a callback that stores every match and never
\* reports a full buffer
RECURSIVE ac_emit_chain_nocap(_, _, _, _, _)
ac_emit_chain_nocap(meta, ms, i, acc, max) ==
  IF ms <= 0 THEN [acc |-> acc, stop |-> FALSE]
  ELSE IF meta[ms].is_final
  THEN ac_emit_chain_nocap(meta, Int16(meta[ms].output), i,
                           Append(acc, [position |-> i,
                                        pattern_id |-> meta[ms].pattern_id,
                                        length |-> meta[ms].depth]), max)
  ELSE ac_emit_chain_nocap(meta, Int16(meta[ms].output), i, acc, max)

\* The output-chain walk `while (ms > 0)` of ac_search with search_all_callback:
\* appends to acc, stop is TRUE when the callback returned false (buffer full)
RECURSIVE ac_emit_chain(_, _, _, _, _)
ac_emit_chain(meta, ms, i, acc, max) ==
  IF ms <= 0 THEN [acc |-> acc, stop |-> FALSE]
  ELSE IF meta[ms].is_final
  THEN IF Len(acc) >= max THEN [acc |-> acc, stop |-> TRUE]
       ELSE ac_emit_chain(meta, Int16(meta[ms].output), i,
                          Append(acc, [position |-> i,
                                       pattern_id |-> meta[ms].pattern_id,
                                       length |-> meta[ms].depth]), max)
  ELSE ac_emit_chain(meta, Int16(meta[ms].output), i, acc, max)

RECURSIVE ac_search_loop(_, _, _, _, _, _)
ac_search_loop(ac, text, i, state, acc, max) ==
  IF i >= Len(text) THEN acc
  ELSE LET next == ac_step(ac, state, text[i + 1])
           e == ac_emit_chain(ac.meta, next, i, acc, max)
       IN IF e.stop THEN e.acc
          ELSE ac_search_loop(ac, text, i + 1, next, e.acc, max)

\* ac_search_all (ac_search driven by search_all_callback): the matches array
ac_search_all(ac, text, max_matches) ==
  IF ~ac.built \/ Len(text) = 0 THEN <<>>
  ELSE ac_search_loop(ac, text, 0, 0, <<>>, max_matches)

RECURSIVE ac_chain_has_final(_, _)
ac_chain_has_final(meta, ms) ==
  IF ms <= 0 THEN FALSE
  ELSE IF meta[ms].is_final THEN TRUE
  ELSE ac_chain_has_final(meta, Int16(meta[ms].output))

RECURSIVE ac_has_match_loop(_, _, _, _)
ac_has_match_loop(ac, text, i, state) ==
  IF i >= Len(text) THEN FALSE
  ELSE LET next == ac_step(ac, state, text[i + 1])
       IN IF ac_chain_has_final(ac.meta, next) THEN TRUE
          ELSE ac_has_match_loop(ac, text, i + 1, next)

ac_search_has_match(ac, text) ==
  IF ~ac.built \/ Len(text) = 0 THEN FALSE
  ELSE ac_has_match_loop(ac, text, 0, 0)

\* ac_get_root_transitions: the root's 256 int16_t transitions, or NULL
ac_get_root_transitions(ac) ==
  IF ac = NULL THEN NULL
  ELSE IF ac.root_row # NULL THEN ac.root_row
  ELSE IF ac.dfa # NULL THEN Arr([c \in Bytes |-> ac.dfa[c]])
  ELSE NULL

\* ------------------------------------------------------------------------
\* SSE4.2 trigger pre-filter (src/amd/sse42_filter.c)
\* ------------------------------------------------------------------------

\* sse42_build_triggers: up to max_triggers first bytes of the root row, in
\* byte order, zero padded; [triggers, count]
sse42_build_triggers(automaton, max_triggers) ==
  LET root_row == ac_get_root_transitions(automaton)
  IN IF root_row = NULL THEN [triggers |-> ArrFill(SSE_TRIGGER_MAX, 0), count |-> 0]
     ELSE LET firsts == Ascending({c \in Bytes : root_row[c] # 0})
              count == IF Len(firsts) < max_triggers THEN Len(firsts) ELSE max_triggers
          IN [triggers |-> Arr([i \in 0 .. (SSE_TRIGGER_MAX - 1) |->
                                  IF i < count THEN firsts[i + 1] ELSE 0]),
              count |-> count]

\* A comparison against all 16 bytes of a, whatever la is
pcmpestri_equal_any_full(a, la, b, lb) ==
  LET hits == {j \in 0 .. (lb - 1) : \E t \in 0 .. 15 : a[t] = b[j]}
  IN IF hits = {} THEN 16 ELSE CHOOSE j \in hits : \A k \in hits : j <= k

\* _mm_cmpestri(a, la, b, lb, UBYTE_OPS | CMP_EQUAL_ANY): index of the first of
\* the lb bytes of b equal to one of the la bytes of a, or 16
pcmpestri_equal_any(a, la, b, lb) ==
  LET hits == {j \in 0 .. (lb - 1) : \E t \in 0 .. (la - 1) : a[t] = b[j]}
  IN IF hits = {} THEN 16 ELSE CHOOSE j \in hits : \A k \in hits : j <= k

\* sse42_has_triggers, the __SSE4_2__ build (the only one the redactor calls,
\* sse42_available() being false otherwise)
sse42_has_triggers(triggers, trigger_count, line) ==
  IF trigger_count = 0 \/ Len(line) = 0 THEN FALSE
  ELSE LET n == IF trigger_count > 16 THEN 16 ELSE trigger_count
           len == Len(line)
           full == len \div 16
           remaining == len % 16
           chunk(k) == [j \in 0 .. 15 |-> line[16 * k + j + 1]]
           tail == [j \in 0 .. 15 |-> IF j < remaining THEN line[16 * full + j + 1] ELSE 0]
       IN \/ \E k \in 0 .. (full - 1) : pcmpestri_equal_any(triggers, n, chunk(k), 16) < 16
          \/ /\ remaining > 0
             /\ pcmpestri_equal_any(triggers, n, tail, remaining) < remaining

\* sse42_has_triggers, the build without __SSE4_2__: the scalar loops
sse42_has_triggers_scalar(triggers, trigger_count, line) ==
  \E i \in 0 .. (Len(line) - 1) : \E t \in 0 .. (trigger_count - 1) :
    line[i + 1] = triggers[t]

\* ------------------------------------------------------------------------
\* Pattern set (src/patterns.c)
\* ------------------------------------------------------------------------

PLUMBR_MAX_PATTERN_NAME == 64

PLUMBR_MAX_LITERAL_LEN == 256

PLUMBR_MAX_REPLACEMENT_LEN == 128

\* strncpy(dst, s, n - 1); dst[n - 1] = '\0'
StrNCpy(s, n) == IF Len(s) <= n - 1 THEN s ELSE SubSeq(s, 1, n - 1)

\* The host regex library.  The regexes of the model are the PCRE patterns
\* that consist of literal characters only: such a pattern matches exactly its
\* own text, and the empty pattern matches the empty string.  A pattern that
\* does not compile is [valid |-> FALSE].  A pattern with limit = TRUE stands
\* for one that compiles and whose evaluation runs into the match limit that
\* redactor_create sets (pcre2_set_match_limit), whatever the subject.
RegexText(text) == [valid |-> TRUE, text |-> text, limit |-> FALSE]

\* pcre2_compile: the code handle, NULL on a compile error
pcre2_compile(regex) ==
  IF regex.valid THEN [text |-> regex.text, limit |-> regex.limit] ELSE NULL

\* pcre2_match / pcre2_jit_match from start_offset: rc > 0 and the ovector of
\* the leftmost match at or after start_offset, rc = -1 (PCRE2_ERROR_NOMATCH),
\* or rc = -47 (PCRE2_ERROR_MATCHLIMIT)
pcre2_match(code, subject, start_offset) ==
  LET w == code.text
      at == {p \in start_offset .. (Len(subject) - Len(w)) :
               \A k \in 1 .. Len(w) : subject[p + k] = w[k]}
  IN IF code.limit THEN [rc |-> -47, ovector |-> <<0, 0>>]
     ELSE IF at = {} THEN [rc |-> -1, ovector |-> <<0, 0>>]
     ELSE LET p == CHOOSE x \in at : \A y \in at : x <= y
          IN [rc |-> 1, ovector |-> <<p, p + Len(w)>>]

\* "[REDACTED:" and "]"
RedactedPrefix == <<91, 82, 69, 68, 65, 67, 84, 69, 68, 58>>
RedactedSuffix == <<93>>

\* A Pattern slot after memset(p, 0, sizeof(Pattern))
ZeroPattern ==
  [name |-> <<>>, literal |-> <<>>, literal_len |-> 0, has_literal |-> FALSE,
   regex |-> NULL, replacement |-> <<>>, replacement_len |-> 0, id |-> 0]

patterns_create(initial_capacity) ==
  [patterns |-> ArrFill(initial_capacity, ZeroPattern),
   count |-> 0,
   capacity |-> initial_capacity,
   automaton |-> ac_create,
   hot_ac |-> NULL, hot_count |-> 0,
   sentinel |-> NULL,
   built |-> FALSE]

\* Variants of patterns_add: checkFull = FALSE drops the capacity test,
\* countFailed = TRUE lets an add that fails to compile take its slot
patterns_add_with(ps, name, literal, regex, replacement, checkFull, countFailed) ==
  IF ps.built THEN [ps |-> ps, ok |-> FALSE]
  ELSE IF checkFull /\ ps.count >= ps.capacity THEN [ps |-> ps, ok |-> FALSE]
  ELSE
    LET lit == IF literal # NULL THEN StrNCpy(literal, PLUMBR_MAX_LITERAL_LEN) ELSE <<>>
        code == pcre2_compile(regex)
        p1 == [ZeroPattern EXCEPT !.name = StrNCpy(name, PLUMBR_MAX_PATTERN_NAME),
                                  !.literal = lit,
                                  !.literal_len = Len(lit),
                                  !.has_literal = (literal # NULL),
                                  !.regex = code]
        repl == IF replacement # NULL
                THEN StrNCpy(replacement, PLUMBR_MAX_REPLACEMENT_LEN)
                ELSE StrNCpy(RedactedPrefix \o name \o RedactedSuffix,
                             PLUMBR_MAX_REPLACEMENT_LEN)
        p2 == [p1 EXCEPT !.replacement = repl, !.replacement_len = Len(repl),
                         !.id = ps.count]
    IN IF code = NULL
       THEN [ps |-> [ps EXCEPT !.patterns[ps.count] = p1,
                               !.count = IF countFailed THEN ps.count + 1 ELSE ps.count],
             ok |-> FALSE]
       ELSE [ps |-> [ps EXCEPT !.patterns[ps.count] = p2, !.count = ps.count + 1],
             ok |-> TRUE]

patterns_add_nofull(ps, name, literal, regex, replacement) ==
  patterns_add_with(ps, name, literal, regex, replacement, FALSE, FALSE)

patterns_add_counting(ps, name, literal, regex, replacement) ==
  patterns_add_with(ps, name, literal, regex, replacement, TRUE, TRUE)

\* patterns_add: [ps, ok].  literal and replacement may be NULL.
patterns_add(ps, name, literal, regex, replacement) ==
  IF ps.built THEN [ps |-> ps, ok |-> FALSE]
  ELSE IF ps.count >= ps.capacity THEN [ps |-> ps, ok |-> FALSE]
  ELSE
    LET lit == IF literal # NULL THEN StrNCpy(literal, PLUMBR_MAX_LITERAL_LEN) ELSE <<>>
        code == pcre2_compile(regex)
        p1 == [ZeroPattern EXCEPT !.name = StrNCpy(name, PLUMBR_MAX_PATTERN_NAME),
                                  !.literal = lit,
                                  !.literal_len = Len(lit),
                                  !.has_literal = (literal # NULL),
                                  !.regex = code]
        repl == IF replacement # NULL
                THEN StrNCpy(replacement, PLUMBR_MAX_REPLACEMENT_LEN)
                ELSE StrNCpy(RedactedPrefix \o name \o RedactedSuffix,
                             PLUMBR_MAX_REPLACEMENT_LEN)
        p2 == [p1 EXCEPT !.replacement = repl, !.replacement_len = Len(repl),
                         !.id = ps.count]
    IN IF code = NULL
       THEN [ps |-> [ps EXCEPT !.patterns[ps.count] = p1], ok |-> FALSE]
       ELSE [ps |-> [ps EXCEPT !.patterns[ps.count] = p2, !.count = ps.count + 1],
             ok |-> TRUE]

\* patterns_load_file on an opened file: one patterns_add per pattern line,
\* failures reported and skipped.  entries: <<[name, literal, regex, replacement]>>
RECURSIVE patterns_load_file(_, _)
patterns_load_file(ps, entries) ==
  IF entries = <<>> THEN ps
  ELSE LET e == Head(entries)
       IN patterns_load_file(patterns_add(ps, e.name, e.literal, e.regex, e.replacement).ps,
                             Tail(entries))

patterns_get(ps, id) == IF id >= ps.count THEN NULL ELSE ps.patterns[id]

\* hot_names[] of patterns_build
hot_names ==
  <<
     <<112, 97, 115, 115, 119, 111, 114, 100, 95, 118, 97, 108, 117, 101>>,
     <<115, 101, 99, 114, 101, 116, 95, 118, 97, 108, 117, 101>>,
     <<97, 112, 105, 95, 107, 101, 121, 95, 118, 97, 108, 117, 101>>,
     <<116, 111, 107, 101, 110, 95, 118, 97, 108, 117, 101>>,
     <<99, 114, 101, 100, 101, 110, 116, 105, 97, 108, 95, 118, 97, 108, 117, 101>>,
     <<97, 119, 115, 95, 97, 99, 99, 101, 115, 115, 95, 107, 101, 121>>,
     <<103, 105, 116, 104, 117, 98, 95, 112, 101, 114, 115, 111, 110, 97, 108, 95, 97, 99, 99, 101, 115, 115, 95, 116, 111, 107, 101, 110>>,
     <<101, 109, 97, 105, 108, 95, 97, 100, 100, 114, 101, 115, 115>>,
     <<103, 101, 110, 101, 114, 105, 99, 95, 97, 112, 105, 95, 107, 101, 121>>,
     <<103, 101, 110, 101, 114, 105, 99, 95, 97, 112, 105, 95, 115, 101, 99, 114, 101, 116>>,
     <<103, 101, 110, 101, 114, 105, 99, 95, 97, 117, 116, 104, 95, 116, 111, 107, 101, 110>>,
     <<98, 101, 97, 114, 101, 114, 95, 116, 111, 107, 101, 110>>,
     <<103, 101, 110, 101, 114, 105, 99, 95, 112, 97, 115, 115, 119, 111, 114, 100>>,
     <<103, 101, 110, 101, 114, 105, 99, 95, 115, 101, 99, 114, 101, 116, 95, 107, 101, 121>>,
     <<118, 105, 115, 97>>,
     <<109, 97, 115, 116, 101, 114, 99, 97, 114, 100>>,
     <<97, 109, 101, 120>>,
     <<115, 115, 110>>,
     <<112, 114, 105, 118, 97, 116, 101, 95, 107, 101, 121, 95, 112, 97, 116, 104>>,
     <<103, 101, 110, 101, 114, 105, 99, 95, 100, 98, 95, 112, 97, 115, 115, 119, 111, 114, 100>>
  >>

\* sentinels[] of patterns_build, each literal with the length the table gives
\* it ("Steuernummer" is listed with 13, which takes in its terminating NUL)
sentinels ==
  <<
     <<112, 97, 115, 115, 119, 111, 114, 100>>,
     <<115, 101, 99, 114, 101, 116>>,
     <<116, 111, 107, 101, 110>>,
     <<65, 75, 73, 65>>,
     <<103, 104, 112, 95>>,
     <<115, 107, 95, 108, 105, 118, 101, 95>>,
     <<112, 111, 115, 116, 103, 114, 101, 115, 58, 47, 47>>,
     <<109, 111, 110, 103, 111, 100, 98, 58, 47, 47>>,
     <<45, 45, 45, 45, 45, 66, 69, 71, 73, 78>>,
     <<120, 111, 120, 98, 45>>,
     <<101, 121, 74>>,
     <<66, 101, 97, 114, 101, 114>>,
     <<97, 112, 105, 95, 107, 101, 121>>,
     <<99, 114, 101, 100, 101, 110, 116, 105, 97, 108>>,
     <<107, 101, 121>>,
     <<77, 82, 78>>,
     <<78, 80, 73>>,
     <<100, 105, 97, 103, 110, 111, 115, 105, 115>>,
     <<112, 97, 116, 105, 101, 110, 116>>,
     <<98, 101, 110, 101, 102, 105, 99, 105, 97, 114, 121>>,
     <<73, 67, 68>>,
     <<103, 108, 117, 99, 111, 115, 101>>,
     <<65, 49, 67>>,
     <<98, 108, 111, 111, 100>>,
     <<104, 101, 97, 114, 116, 95, 114, 97, 116, 101>>,
     <<101, 110, 99, 111, 117, 110, 116, 101, 114>>,
     <<112, 114, 101, 115, 99, 114, 105, 112, 116, 105, 111, 110>>,
     <<82, 120>>,
     <<99, 97, 114, 100, 104, 111, 108, 100, 101, 114>>,
     <<37, 66>>,
     <<80, 73, 78>>,
     <<116, 114, 97, 99, 107>>,
     <<99, 97, 114, 100, 95, 110, 117, 109, 98, 101, 114>>,
     <<99, 118, 118>>,
     <<109, 101, 114, 99, 104, 97, 110, 116>>,
     <<73, 66, 65, 78>>,
     <<78, 73, 78, 79>>,
     <<68, 78, 73>>,
     <<78, 73, 69>>,
     <<73, 78, 83, 69, 69>>,
     <<83, 116, 101, 117, 101, 114, 110, 117, 109, 109, 101, 114, 0>>,
     <<99, 111, 100, 105, 99, 101, 95, 102, 105, 115, 99, 97, 108, 101>>,
     <<100, 114, 105, 118, 105, 110, 103, 95, 108, 105, 99, 101, 110>>,
     <<97, 117, 100, 105, 116, 95, 105, 100>>,
     <<115, 101, 115, 115, 105, 111, 110, 95, 105, 100>>,
     <<114, 111, 108, 101>>,
     <<112, 101, 114, 109, 105, 115, 115, 105, 111, 110>>,
     <<97, 99, 108>>,
     <<112, 114, 105, 118, 105, 108, 101, 103, 101>>,
     <<101, 110, 99, 114, 121, 112, 116, 105, 111, 110, 95, 107, 101, 121>>,
     <<115, 105, 103, 110, 105, 110, 103, 95, 107, 101, 121>>,
     <<109, 97, 115, 116, 101, 114, 95, 107, 101, 121>>,
     <<109, 102, 97>>,
     <<116, 111, 116, 112>>,
     <<114, 101, 99, 111, 118, 101, 114, 121, 95, 99, 111, 100, 101>>,
     <<107, 109, 115>>
  >>

\* The bytes the lines of the model are written in: "R", "x", "1", "u", "@",
\* "c", "a", "z", "9", " "
LineBytes == {82, 120, 49, 117, 64, 99, 97, 122, 57, 32}

\* The sentinel literals that can occur in a line over LineBytes.  The others
\* match no line of the model; they are left out of the sentinel trie, whose
\* state budget is scaled with AC_MAX_STATES.
SentinelInModel(i) == \A k \in 1 .. Len(sentinels[i]) : sentinels[i][k] \in LineBytes

\* patterns_build, "Add literals to AC automaton": the loop from pattern i on
\* (the result of ac_add_pattern is not looked at)
RECURSIVE patterns_add_literals(_, _, _)
patterns_add_literals(automaton, ps, i) ==
  IF i >= ps.count THEN automaton
  ELSE LET pat == ps.patterns[i]
       IN IF pat.has_literal /\ pat.literal_len > 0
          THEN patterns_add_literals(ac_add_pattern(automaton, pat.literal, pat.id).ac,
                                     ps, i + 1)
          ELSE patterns_add_literals(automaton, ps, i + 1)

\* patterns_build, the hot automaton: the loop over hot_names from index h
\* (1-based); [ac, hot_count]
RECURSIVE patterns_add_hot(_, _, _, _)
patterns_add_hot(hot_ac, hot_count, ps, h) ==
  IF h > Len(hot_names) \/ hot_count >= PLUMBR_HOT_AC_SIZE
  THEN [ac |-> hot_ac, hot_count |-> hot_count]
  ELSE LET found == {i \in 0 .. (ps.count - 1) :
                       /\ ps.patterns[i].name = hot_names[h]
                       /\ ps.patterns[i].has_literal
                       /\ ps.patterns[i].literal_len > 0}
       IN IF found = {}
          THEN patterns_add_hot(hot_ac, hot_count, ps, h + 1)
          ELSE LET i == CHOOSE x \in found : \A y \in found : x <= y
                   pat == ps.patterns[i]
               IN patterns_add_hot(ac_add_pattern(hot_ac, pat.literal, pat.id).ac,
                                   hot_count + 1, ps, h + 1)

\* patterns_build, the sentinel automaton: the loop over sentinels from index
\* i (1-based), pattern id i - 1
RECURSIVE patterns_add_sentinels(_, _)
patterns_add_sentinels(sentinel, i) ==
  IF i > Len(sentinels) THEN sentinel
  ELSE IF SentinelInModel(i)
  THEN patterns_add_sentinels(ac_add_pattern(sentinel, sentinels[i], i - 1).ac, i + 1)
  ELSE patterns_add_sentinels(sentinel, i + 1)

\* patterns_build: [ps, ok]
patterns_build(ps) ==
  IF ps.built THEN [ps |-> ps, ok |-> TRUE]
  ELSE
    LET full == ac_build(patterns_add_literals(ps.automaton, ps, 0))
        hotAdded == patterns_add_hot(ac_set_force_flat(ac_create), 0, ps, 1)
        hotBuilt == ac_build(hotAdded.ac)
        sentBuilt == ac_build(patterns_add_sentinels(ac_create, 1))
    IN IF ~full.ok
       THEN [ps |-> [ps EXCEPT !.automaton = full.ac], ok |-> FALSE]
       ELSE [ps |-> [ps EXCEPT
                       !.automaton = full.ac,
                       !.hot_count = hotAdded.hot_count,
                       !.hot_ac = IF hotAdded.hot_count = 0 \/ ~hotBuilt.ok
                                  THEN NULL ELSE hotBuilt.ac,
                       !.sentinel = IF ~sentBuilt.ok THEN NULL ELSE sentBuilt.ac,
                       !.built = TRUE],
             ok |-> TRUE]

\* ------------------------------------------------------------------------
\* Redactor (src/redactor.c)
\* ------------------------------------------------------------------------

redactor_create(patterns, output_capacity, have_sse42) ==
  LET trig == IF have_sse42 /\ patterns.automaton # NULL
              THEN sse42_build_triggers(patterns.automaton, SSE_TRIGGER_MAX)
              ELSE [triggers |-> ArrFill(SSE_TRIGGER_MAX, 0), count |-> 0]
  IN [output_buf |-> ArrFill(output_capacity, 0),
      output_capacity |-> output_capacity,
      num_patterns |-> patterns.count,
      match_data |-> Arr([i \in 0 .. (patterns.count - 1) |->
                            patterns_get(patterns, i) # NULL
                            /\ patterns_get(patterns, i).regex # NULL]),
      lines_scanned |-> 0, lines_modified |-> 0, patterns_matched |-> 0,
      lines_prefiltered |-> 0, lines_sentinel_filtered |-> 0,
      use_sse42 |-> have_sse42,
      triggers |-> trig.triggers,
      trigger_count |-> trig.count]

\* The regex search start of verify_ac_matches for one candidate
\* size_t is modelled with SizeBits bits, so that SIZE_MAX and the wrap-around
\* the overflow checks guard against are within reach of the inputs.
SizeBits == 8

SIZE_MAX == 2 ^ SizeBits - 1

SizeT(x) == x % (SIZE_MAX + 1)

\* the search start computed as position - length - 10 in size_t, with no
\* test before either subtraction
search_start_unguarded(m) == SizeT(m.position - m.length - 10)

search_start_of(m) ==
  LET s0 == IF m.position >= m.length THEN m.position - m.length ELSE 0
  IN IF s0 >= 10 THEN s0 - 10 ELSE 0

\* verify_ac_matches from candidate i (1-based) on: the verified array
RECURSIVE verify_ac_matches(_, _, _, _, _, _, _)
verify_ac_matches(r, patterns, line, ac_matches, i, verified, max_verified) ==
  IF i > Len(ac_matches) \/ Len(verified) >= max_verified THEN verified
  ELSE
    LET m == ac_matches[i]
        pat == patterns_get(patterns, m.pattern_id)
        skip == verify_ac_matches(r, patterns, line, ac_matches, i + 1, verified,
                                  max_verified)
    IN IF pat = NULL THEN skip
       ELSE IF pat.regex = NULL THEN skip
       ELSE IF m.pattern_id >= r.num_patterns THEN skip
       ELSE IF ~r.match_data[m.pattern_id] THEN skip
       ELSE LET res == pcre2_match(pat.regex, line, search_start_of(m))
            IN IF res.rc > 0 /\ res.ovector[2] <= Len(line)
               THEN verify_ac_matches(r, patterns, line, ac_matches, i + 1,
                      Append(verified, [start |-> res.ovector[1], end |-> res.ovector[2],
                                        pattern_id |-> m.pattern_id]),
                      max_verified)
               ELSE skip

\* redactor_process up to the call of redactor_apply: the stage that decides
\* the line, the verified matches, and the redactor with its counters updated
redactor_scan(r, patterns, line) ==
  LET r0 == [r EXCEPT !.lines_scanned = r.lines_scanned + 1]
      len == Len(line)
      sentinelHit == patterns.sentinel # NULL
                     /\ ac_search_has_match(patterns.sentinel, line)
      noTriggers == r.use_sse42 /\ r.trigger_count > 0
                    /\ ~sse42_has_triggers(r.triggers, r.trigger_count, line)
      hot == IF patterns.hot_ac # NULL
             THEN ac_search_all(patterns.hot_ac, line, PLUMBR_MAX_MATCHES_PER_LINE)
             ELSE <<>>
      hotVerified == verify_ac_matches(r, patterns, line, hot, 1, <<>>,
                                       PLUMBR_MAX_MATCHES_PER_LINE)
      cold == ac_search_all(patterns.automaton, line, PLUMBR_MAX_MATCHES_PER_LINE)
      coldVerified == verify_ac_matches(r, patterns, line, cold, 1, <<>>,
                                        PLUMBR_MAX_MATCHES_PER_LINE)
      matched(rr, v) == [rr EXCEPT !.patterns_matched = rr.patterns_matched + Len(v)]
      coldScan(rr) ==
        IF Len(cold) = 0 THEN [path |-> "cold_none", verified |-> <<>>, r |-> rr]
        ELSE IF Len(coldVerified) > 0
        THEN [path |-> "cold", verified |-> coldVerified, r |-> matched(rr, coldVerified)]
        ELSE [path |-> "cold_unverified", verified |-> <<>>, r |-> rr]
  IN IF len = 0 THEN [path |-> "empty", verified |-> <<>>, r |-> r0]
     ELSE IF noTriggers /\ sentinelHit THEN coldScan(r0)
     ELSE IF noTriggers
     THEN [path |-> "prefilter", verified |-> <<>>,
           r |-> [r0 EXCEPT !.lines_prefiltered = r0.lines_prefiltered + 1]]
     ELSE IF patterns.sentinel # NULL /\ ~sentinelHit
     THEN [path |-> "sentinel", verified |-> <<>>,
           r |-> [r0 EXCEPT !.lines_sentinel_filtered = r0.lines_sentinel_filtered + 1]]
     ELSE IF Len(hot) > 0 /\ Len(hotVerified) > 0
     THEN [path |-> "hot", verified |-> hotVerified, r |-> matched(r0, hotVerified)]
     ELSE coldScan(matched(r0, hotVerified))

\* qsort(verified, n, sizeof(MatchLocation), match_compare): the arrays qsort
\* may leave behind.  match_compare orders by start only and the order of
\* elements that compare equal is unspecified, so every arrangement of the
\* same elements with non-decreasing start is a possible result.
qsort_results(verified) ==
  LET n == Len(verified)
      perms == {f \in [1 .. n -> 1 .. n] : \A i, j \in 1 .. n : i # j => f[i] # f[j]}
  IN {[i \in 1 .. n |-> verified[f[i]]] :
        f \in {g \in perms : \A i \in 1 .. (n - 1) :
                               verified[g[i]].start <= verified[g[i + 1]].start}}

\* A merge loop that keeps every match as it is
redactor_merge_none(verified, i, merged) ==
  merged \o SubSeq(verified, i, Len(verified))

\* A merge loop that drops an overlapping match without widening the one
\* before it
RECURSIVE redactor_merge_nowiden(_, _, _)
redactor_merge_nowiden(verified, i, merged) ==
  IF i > Len(verified) THEN merged
  ELSE IF verified[i].start < merged[Len(merged)].end
  THEN redactor_merge_nowiden(verified, i + 1, merged)
  ELSE redactor_merge_nowiden(verified, i + 1, Append(merged, verified[i]))

\* redactor_apply, "Merge overlapping matches": the loop from i (1-based
\* here) on, merged holding the first merged_count elements
RECURSIVE redactor_merge(_, _, _)
redactor_merge(verified, i, merged) ==
  IF i > Len(verified) THEN merged
  ELSE LET prev == merged[Len(merged)]
           curr == verified[i]
       IN IF curr.start < prev.end
          THEN IF curr.end > prev.end
               THEN redactor_merge(verified, i + 1,
                      [merged EXCEPT ![Len(merged)].end = curr.end])
               ELSE redactor_merge(verified, i + 1, merged)
          ELSE redactor_merge(verified, i + 1, Append(merged, curr))

\* A copy that starts at the head of the line whatever in_pos is
SliceFromHead(line, from, to) == [k \in 1 .. to |-> line[k]]

\* The bytes line[from .. to-1] and, for each, the index it was copied from
SliceOf(line, from, to) == [k \in 1 .. (to - from) |-> line[from + k]]
SliceSrc(from, to) == [k \in 1 .. (to - from) |-> from + k - 1]

\* redactor_apply, "Build output with redactions": the loop from merged match
\* i (1-based here) on.  out is output_buf[0 .. out_pos-1]; src[k] is the index
\* in line that out[k] was copied from, -1 for a byte of a replacement.
\* broke: the loop ended with break; stop_at: the index in line of the first
\* byte the loop did not get to (the prefix or the match it stopped at).
RECURSIVE redactor_build(_, _, _, _, _, _, _, _)
redactor_build(patterns, cap, line, merged, i, out, src, in_pos) ==
  IF i > Len(merged)
  THEN [out |-> out, src |-> src, in_pos |-> in_pos, broke |-> FALSE, stop_at |-> Len(line)]
  ELSE
    LET m == merged[i]
        pat == patterns_get(patterns, m.pattern_id)
        before_len == m.start - in_pos
        out1 == IF before_len > 0 THEN out \o SliceOf(line, in_pos, m.start) ELSE out
        src1 == IF before_len > 0 THEN src \o SliceSrc(in_pos, m.start) ELSE src
        hasRepl == pat # NULL /\ pat.replacement_len > 0
    IN IF before_len > 0 /\ Len(out) + before_len >= cap
       THEN [out |-> out, src |-> src, in_pos |-> in_pos, broke |-> TRUE,
             stop_at |-> in_pos]
       ELSE IF hasRepl /\ Len(out1) + pat.replacement_len >= cap
       THEN [out |-> out1, src |-> src1, in_pos |-> in_pos, broke |-> TRUE,
             stop_at |-> m.start]
       ELSE redactor_build(patterns, cap, line, merged, i + 1,
              IF hasRepl THEN out1 \o pat.replacement ELSE out1,
              IF hasRepl THEN src1 \o [k \in 1 .. pat.replacement_len |-> -1] ELSE src1,
              m.end)

\* redactor_apply on the array qsort left in `sorted`: the redactor with
\* output_buf and lines_modified updated, and *out_len; with them the merged
\* list, the provenance of the output bytes, and whether the loop ended with
\* break
redactor_apply(r, patterns, line, sorted) ==
  LET merged == redactor_merge(sorted, 2, <<sorted[1]>>)
      b == redactor_build(patterns, r.output_capacity, line, merged, 1, <<>>, <<>>, 0)
      remaining == Len(line) - b.in_pos
      tail == remaining > 0 /\ Len(b.out) + remaining < r.output_capacity
      out == IF tail THEN b.out \o SliceOf(line, b.in_pos, Len(line)) ELSE b.out
      src == IF tail THEN b.src \o SliceSrc(b.in_pos, Len(line)) ELSE b.src
      out_pos == Len(out)
  IN [r |-> [r EXCEPT
               !.output_buf = Arr([k \in DOMAIN r.output_buf |->
                                     IF k < out_pos THEN out[k + 1]
                                     ELSE IF k = out_pos THEN 0
                                     ELSE r.output_buf[k]]),
               !.lines_modified = r.lines_modified + 1],
      out_len |-> out_pos,
      merged |-> merged,
      out |-> out,
      src |-> src,
      broke |-> b.broke,
      stop_at |-> b.stop_at]

\* redactor_reset_stats that leaves lines_scanned and lines_modified alone
redactor_reset_stats_keep(r) ==
  [r EXCEPT !.patterns_matched = 0, !.lines_sentinel_filtered = 0]

redactor_reset_stats(r) ==
  [r EXCEPT !.lines_scanned = 0, !.lines_modified = 0, !.patterns_matched = 0,
            !.lines_sentinel_filtered = 0]

\* ------------------------------------------------------------------------
\* State
\* ------------------------------------------------------------------------

VARIABLES
  ac,         \* a stand-alone ACAutomaton, driven as tests/test_patterns.c drives it
  acAdded,    \* the ac_add_pattern calls made on ac: <<[pattern, pattern_id, ok]>>
  acText,     \* the text of the last ac_search_all on ac (NoText before any)
  acMatches,  \* the matches array that call filled
  ps,         \* the PatternSet
  r,          \* the Redactor over ps, NULL before redactor_create
  ret,        \* what the last call on ps returned ("none" before any)
  call,       \* the last redactor_process call, NULL before any
  calls,      \* the number of redactor_process calls made
  pctx,       \* the ParallelCtx with its workers and barriers, NULL if none
  pcall,      \* the thread that calls parallel_process / parallel_destroy
  lines,      \* the lines array of the current parallel_process call
  outputs,    \* the caller's output buffers, one per slot
  out_lengths,\* the caller's out_lengths array
  pvisits,    \* per worker and index: loop bodies run since the last dispatch
  pwritten,   \* the slots written since the last dispatch
  pbatches,   \* the number of parallel_process calls made
  pool,       \* the ThreadPool with its workers, mutex and conditions, NULL if none
  tcall,      \* the thread that calls threadpool_process_batch
  items,      \* the WorkItem array of the current batch
  tvisits,    \* per worker and index: items processed since the last dispatch
  tbatches,   \* the number of threadpool_process_batch calls made
  lib,        \* the libplumbr_t handle (over ps and r) with its last call, NULL if none
  arena,      \* an Arena driven on its own, NULL if none
  sseCall,    \* a sse42_has_triggers call: its arguments and results, NULL if none
  io,         \* an IOContext with the stream behind its read_fd, NULL if none
  startCall,  \* a candidate with the search start computed for it, NULL if none
  query       \* a text, a line and the results of the queries made on them, NULL if none

acVars == <<ac, acAdded, acText, acMatches>>

plVars == <<ps, r, ret, call, calls>>

parVars == <<pctx, pcall, lines, outputs, out_lengths, pvisits, pwritten, pbatches>>

tpVars == <<pool, tcall, items, tvisits, tbatches>>

auxVars == <<lib, arena, sseCall, io, startCall, query>>

vars == <<ac, acAdded, acText, acMatches, ps, r, ret, call, calls,
          pctx, pcall, lines, outputs, out_lengths, pvisits, pwritten, pbatches,
          pool, tcall, items, tvisits, tbatches, lib, arena, sseCall, io,
          startCall, query>>

NoText == <<-1>>

\* Scaled: the callers pass PLUMBR_MAX_PATTERNS (1024) to patterns_create
PatternCapacity == 17

\* The state after construction: no automaton touched, an empty pattern set
AcStart ==
  /\ ac = ac_create
  /\ acAdded = <<>>
  /\ acText = NoText
  /\ acMatches = <<>>

PlStart ==
  /\ ps = patterns_create(PatternCapacity)
  /\ r = NULL
  /\ ret = "none"
  /\ call = NULL
  /\ calls = 0

\* No parallel context was created
ParNone ==
  /\ pctx = NULL
  /\ pcall = NULL
  /\ lines = <<>>
  /\ outputs = <<>>
  /\ out_lengths = <<>>
  /\ pvisits = <<>>
  /\ pwritten = {}
  /\ pbatches = 0

\* No thread pool was created
TpNone ==
  /\ pool = NULL
  /\ tcall = NULL
  /\ items = <<>>
  /\ tvisits = <<>>
  /\ tbatches = 0

AuxNone ==
  /\ lib = NULL
  /\ arena = NULL
  /\ sseCall = NULL
  /\ io = NULL
  /\ startCall = NULL
  /\ query = NULL

\* ------------------------------------------------------------------------
\* The automaton on its own: ac_create, ac_add_pattern*, ac_build, ac_search_all
\* ------------------------------------------------------------------------

MaxAcAdds == 2

\* "he", "she", "his", "hers", and 21 times "x"
AcLiterals ==
  { <<104, 101>>, <<115, 104, 101>>, <<104, 105, 115>>, <<104, 101, 114, 115>>,
    [k \in 1 .. 21 |-> 120] }

\* "ushers", "hishe", "hhers", "his", "xyz", "shis"
AcTexts ==
  { <<117, 115, 104, 101, 114, 115>>, <<104, 105, 115, 104, 101>>,
    <<104, 104, 101, 114, 115>>, <<104, 105, 115>>, <<120, 121, 122>>,
    <<115, 104, 105, 115>> }

AcInit == AcStart /\ PlStart /\ ParNone /\ TpNone /\ AuxNone

AcAddPattern(lit) ==
  /\ Len(acAdded) < MaxAcAdds
  /\ LET res == ac_add_pattern(ac, lit, Len(acAdded))
     IN /\ ac' = res.ac
        /\ acAdded' = Append(acAdded, [pattern |-> lit, pattern_id |-> Len(acAdded),
                                       ok |-> res.ok])
  /\ UNCHANGED <<acText, acMatches>>
  /\ UNCHANGED <<plVars, parVars, tpVars, auxVars>>

AcSetForceFlat ==
  /\ ~ac.built
  /\ ~ac.force_flat
  /\ ac' = ac_set_force_flat(ac)
  /\ UNCHANGED <<acAdded, acText, acMatches>>
  /\ UNCHANGED <<plVars, parVars, tpVars, auxVars>>

AcBuild ==
  /\ ~ac.built
  /\ ac' = ac_build(ac).ac
  /\ UNCHANGED <<acAdded, acText, acMatches>>
  /\ UNCHANGED <<plVars, parVars, tpVars, auxVars>>

AcSearchAll(text) ==
  /\ ac.built
  /\ acText' = text
  /\ acMatches' = ac_search_all(ac, text, PLUMBR_MAX_MATCHES_PER_LINE)
  /\ UNCHANGED <<ac, acAdded>>
  /\ UNCHANGED <<plVars, parVars, tpVars, auxVars>>

AcNext ==
  \/ \E lit \in AcLiterals : AcAddPattern(lit)
  \/ AcSetForceFlat
  \/ AcBuild
  \/ \E text \in AcTexts : AcSearchAll(text)

SpecAC == AcInit /\ [][AcNext]_vars

\* ------------------------------------------------------------------------
\* Properties of the automaton (SpecAC)
\* ------------------------------------------------------------------------

\* The ac_add_pattern calls on ac all succeeded and gave pairwise distinct literals
AcDistinctLiterals ==
  /\ \A k \in 1 .. Len(acAdded) : acAdded[k].ok
  /\ \A j, k \in 1 .. Len(acAdded) : j # k => acAdded[j].pattern # acAdded[k].pattern

\* lit is a suffix of text[0..i]
IsSuffixAt(lit, text, i) ==
  /\ Len(lit) <= i + 1
  /\ \A k \in 1 .. Len(lit) : text[i + 1 - Len(lit) + k] = lit[k]

\* The records of a finite set S of matches, longest first
RECURSIVE LongestFirst(_)
LongestFirst(S) ==
  IF S = {} THEN <<>>
  ELSE LET m == CHOOSE x \in S : \A y \in S : x.length >= y.length
       IN <<m>> \o LongestFirst(S \ {m})

\* All occurrences of the added literals in text from end position i on:
\* ascending end position, at one position longest literal first
RECURSIVE OccurrencesFrom(_, _, _)
OccurrencesFrom(added, text, i) ==
  IF i >= Len(text) THEN <<>>
  ELSE LongestFirst({[position |-> i, pattern_id |-> added[k].pattern_id,
                      length |-> Len(added[k].pattern)] :
                       k \in {j \in 1 .. Len(added) : IsSuffixAt(added[j].pattern, text, i)}})
       \o OccurrencesFrom(added, text, i + 1)

\* C5: for distinct non-empty literals and every text, ac_search_all with a
\* large enough buffer returns exactly the occurrences (end position, pattern
\* id) of the literals, each with the literal's length, by ascending end
\* position and, at one position, longest literal first.
C5_SearchAllExact ==
  (acText # NoText /\ AcDistinctLiterals)
    => acMatches = OccurrencesFrom(acAdded, acText, 0)

\* "she" and its proper suffix "he" both reported at the 'e' of "ushers"
C5_Witness ==
  /\ acText = <<117, 115, 104, 101, 114, 115>>
  /\ AcDistinctLiterals
  /\ \E k \in 1 .. (Len(acMatches) - 1) :
       /\ acMatches[k].position = 3 /\ acMatches[k].length = 3
       /\ acMatches[k + 1].position = 3 /\ acMatches[k + 1].length = 2

\* The same automaton with the flat table ac_build writes under force_flat
AcAsFlat(a) == [a EXCEPT !.dfa = ac_build_flat(a.states, a.num_states)]

\* C7: the compressed rows and the flat table give the same scan (same
\* positions, pattern ids and order), and compressed_lookup(s, b) equals the
\* build-time goto_table[s][b] for every non-root state s and byte b.  The
\* table equality is evaluated once per built automaton, in the state the
\* build leaves.
C7_CompressedEqualsFlat ==
  (ac.built /\ ac.dfa = NULL)
    => /\ acText = NoText =>
            \A s \in 1 .. (ac.num_states - 1) : \A b \in Bytes :
              compressed_lookup(ac.compressed, ac.row_index, s, b)
                = ac.states[s].goto_table[b]
       /\ acText # NoText =>
            acMatches = ac_search_all(AcAsFlat(ac), acText, PLUMBR_MAX_MATCHES_PER_LINE)

\* A compressed automaton with a row of several packed transitions, scanned
C7_Witness ==
  /\ ac.built /\ ac.dfa = NULL
  /\ \E s \in 1 .. (ac.num_states - 1) : ac.row_index[s].num_transitions >= 2
  /\ acText = <<117, 115, 104, 101, 114, 115>>
  /\ Len(acMatches) >= 2

\* The states reachable from the root over goto_table, from the set S on
RECURSIVE AcReach(_, _)
AcReach(states, S) ==
  LET T == S \cup ({states[s].goto_table[b] : s \in S, b \in Bytes} \cap DOMAIN states)
  IN IF T = S THEN S ELSE AcReach(states, T)

\* C8: after ac_build every goto_table[s][b] is defined (never -1) and is the
\* id of a state in [0, num_states) reachable from the root.  Evaluated once
\* per built automaton, in the state the build leaves.
C8_DfaComplete ==
  (ac.built /\ acText = NoText)
    => LET reach == AcReach(ac.states, {0})
       IN \A s \in 0 .. (ac.num_states - 1) : \A b \in Bytes :
            /\ ac.states[s].goto_table[b] # -1
            /\ ac.states[s].goto_table[b] \in 0 .. (ac.num_states - 1)
            /\ ac.states[s].goto_table[b] \in reach

\* A built automaton with states three levels deep
C8_Witness ==
  /\ ac.built /\ acText = NoText
  /\ \E s \in 0 .. (ac.num_states - 1) : ac.states[s].depth >= 3

\* C9: a built automaton has at most 32767 states and at most the configured
\* maximum, and every id in its 16-bit tables (flat table, root row,
\* compressed rows) is the build-time id.  Evaluated once per built automaton.
C9_StateIdsFit ==
  (ac.built /\ acText = NoText)
    => /\ ac.num_states <= INT16_MAX
       /\ ac.num_states <= AC_MAX_STATES
       /\ \A s \in 0 .. (ac.num_states - 1) : \A b \in Bytes :
            ac_step(ac, s, b) = ac.states[s].goto_table[b]

\* The trie filled to the maximum: an insertion ran out of states
C9_Witness ==
  /\ ac.built /\ acText = NoText
  /\ ac.num_states = AC_MAX_STATES
  /\ \E k \in 1 .. Len(acAdded) : ~acAdded[k].ok

\* ------------------------------------------------------------------------
\* The pipeline: patterns_create, patterns_add / patterns_load_file,
\* patterns_build, redactor_create, redactor_process, redactor_reset_stats,
\* in the order src/pipeline.c and tests/test_redactor.c call them
\* ------------------------------------------------------------------------

MaxAdds == 1

MaxLines == 1

\* ssn|Rx|Rx1            (a hot name, default replacement "[REDACTED:ssn]")
PatSsn ==
  [name |-> <<115, 115, 110>>, literal |-> <<82, 120>>,
   regex |-> RegexText(<<82, 120, 49>>), replacement |-> NULL]

\* email|@|u@c|#
PatEmail ==
  [name |-> <<101, 109, 97, 105, 108>>, literal |-> <<64>>,
   regex |-> RegexText(<<117, 64, 99>>), replacement |-> <<35>>]

\* em2|@|@c
PatEm2 ==
  [name |-> <<101, 109, 50>>, literal |-> <<64>>,
   regex |-> RegexText(<<64, 99>>), replacement |-> NULL]

\* e|@|          (patterns_add called with the regex "")
PatEmpty ==
  [name |-> <<101>>, literal |-> <<64>>,
   regex |-> RegexText(<<>>), replacement |-> NULL]

\* b|q|(         (a regex that pcre2_compile refuses)
PatBad ==
  [name |-> <<98>>, literal |-> <<113>>,
   regex |-> [valid |-> FALSE, text |-> <<40>>, limit |-> FALSE], replacement |-> NULL]

\* s|c|(c+)+$     (a regex whose evaluation runs into the match limit)
PatSlow ==
  [name |-> <<115>>, literal |-> <<99>>,
   regex |-> [valid |-> TRUE, text |-> <<40, 99, 43, 41, 43, 36>>, limit |-> TRUE],
   replacement |-> NULL]

PatternPool == {PatSsn, PatEmail, PatEm2, PatEmpty, PatBad}

\* A|A|A ... P|P|P and z|z|z9: seventeen distinct first bytes
FileSeventeen ==
  [k \in 1 .. 17 |->
     IF k <= 16
     THEN [name |-> <<64 + k>>, literal |-> <<64 + k>>,
           regex |-> RegexText(<<64 + k>>), replacement |-> NULL]
     ELSE [name |-> <<122>>, literal |-> <<122>>,
           regex |-> RegexText(<<122, 57>>), replacement |-> NULL]]

\* o1|1aaaaaaa|1a, o2|9aaaaaaa|9a, o3|zaaaaaaa|za: 24 trie states
FileLong ==
  [k \in 1 .. 3 |->
     LET first == <<49, 57, 122>>[k]
     IN [name |-> <<111, 48 + k>>,
         literal |-> <<first>> \o [j \in 1 .. 7 |-> 97],
         regex |-> RegexText(<<first, 97>>), replacement |-> NULL]]

PatternFiles ==
  { <<PatSsn, PatEmail>>, <<PatEmail, PatEm2>>, <<PatSlow, PatEmail>>, FileSeventeen, FileLong }

\* "", "u@c", "Rx1", "Rx1 u@c", "u@c Rx1", "aRx1", "z9", "ca", "Rx", "@",
\* "Rx1Rx1"
Lines ==
  { <<>>, <<117, 64, 99>>, <<82, 120, 49>>, <<82, 120, 49, 32, 117, 64, 99>>,
    <<117, 64, 99, 32, 82, 120, 49>>, <<97, 82, 120, 49>>, <<122, 57>>, <<99, 97>>,
    <<82, 120>>, <<64>>, <<82, 120, 49, 82, 120, 49>> }

OutputCapacities == {8, 32}

BoolStr(b) == IF b THEN "true" ELSE "false"

Init == AcStart /\ PlStart /\ ParNone /\ TpNone /\ AuxNone

\* patterns_add, up to MaxAdds times on a set that takes the pattern, any
\* number of times on a set that is full or built
PatternsAdd(e) ==
  /\ r = NULL
  /\ ps.count < MaxAdds \/ ps.count >= ps.capacity \/ ps.built
  /\ LET res == patterns_add(ps, e.name, e.literal, e.regex, e.replacement)
     IN ps' = res.ps /\ ret' = BoolStr(res.ok)
  /\ UNCHANGED <<r, call, calls>>
  /\ UNCHANGED <<acVars, parVars, tpVars, auxVars>>

\* patterns_load_file on a file that opens; the callers load into an empty set
PatternsLoadFile(file) ==
  /\ r = NULL
  /\ ps.count = 0 /\ ~ps.built
  /\ ps' = patterns_load_file(ps, file)
  /\ ret' = BoolStr(ps'.count > 0)
  /\ UNCHANGED <<r, call, calls>>
  /\ UNCHANGED <<acVars, parVars, tpVars, auxVars>>

PatternsBuild ==
  /\ r = NULL
  /\ ~ps.built
  /\ LET res == patterns_build(ps)
     IN ps' = res.ps /\ ret' = BoolStr(res.ok)
  /\ UNCHANGED <<r, call, calls>>
  /\ UNCHANGED <<acVars, parVars, tpVars, auxVars>>

\* redactor_create after a successful patterns_build; have_sse42 is what
\* sse42_available() reports on the machine
RedactorCreate(output_capacity, have_sse42) ==
  /\ r = NULL
  /\ ps.built
  /\ r' = redactor_create(ps, output_capacity, have_sse42)
  /\ UNCHANGED <<ps, ret, call, calls>>
  /\ UNCHANGED <<acVars, parVars, tpVars, auxVars>>

\* A redactor_process that terminates output_buf on the paths without a
\* verified match as well
RedactorProcessTerminating(line) ==
  /\ r # NULL
  /\ calls < MaxLines
  /\ calls' = calls + 1
  /\ LET scan == redactor_scan(r, ps, line)
         len == IF Len(line) < r.output_capacity THEN Len(line) ELSE 0
     IN /\ r' = [scan.r EXCEPT !.output_buf[len] = 1]
        /\ call' = [line |-> line, path |-> scan.path, modified |-> FALSE,
                    verified |-> <<>>, merged |-> <<>>,
                    out |-> line, out_len |-> Len(line),
                    src |-> SliceSrc(0, Len(line)),
                    broke |-> FALSE, stop_at |-> Len(line)]
  /\ UNCHANGED <<ps, ret>>
  /\ UNCHANGED <<acVars, parVars, tpVars, auxVars>>

\* redactor_process(r, line, len, &out_len)
RedactorProcess(line) ==
  /\ r # NULL
  /\ calls < MaxLines
  /\ calls' = calls + 1
  /\ LET scan == redactor_scan(r, ps, line)
     IN IF scan.verified = <<>>
        THEN /\ r' = scan.r
             /\ call' = [line |-> line, path |-> scan.path, modified |-> FALSE,
                         verified |-> <<>>, merged |-> <<>>,
                         out |-> line, out_len |-> Len(line),
                         src |-> SliceSrc(0, Len(line)),
                         broke |-> FALSE, stop_at |-> Len(line)]
        ELSE \E sorted \in qsort_results(scan.verified) :
               LET a == redactor_apply(scan.r, ps, line, sorted)
               IN /\ r' = a.r
                  /\ call' = [line |-> line, path |-> scan.path, modified |-> TRUE,
                              verified |-> scan.verified, merged |-> a.merged,
                              out |-> a.out, out_len |-> a.out_len, src |-> a.src,
                              broke |-> a.broke, stop_at |-> a.stop_at]
  /\ UNCHANGED <<ps, ret>>
  /\ UNCHANGED <<acVars, parVars, tpVars, auxVars>>

RedactorResetStats ==
  /\ r # NULL
  /\ r.lines_scanned > 0
  /\ r' = redactor_reset_stats(r)
  /\ UNCHANGED <<ps, ret, call, calls>>
  /\ UNCHANGED <<acVars, parVars, tpVars, auxVars>>

Next ==
  \/ \E e \in PatternPool : PatternsAdd(e)
  \/ \E file \in PatternFiles : PatternsLoadFile(file)
  \/ PatternsBuild
  \/ \E cap \in OutputCapacities, sse \in BOOLEAN : RedactorCreate(cap, sse)
  \/ \E line \in Lines : RedactorProcess(line)
  \/ RedactorResetStats

Spec == Init /\ [][Next]_vars

\* ------------------------------------------------------------------------
\* Properties of the pipeline (Spec)
\* ------------------------------------------------------------------------

\* The candidates of the full automaton in line and those the regexes verify
FullCandidates(line) == ac_search_all(ps.automaton, line, PLUMBR_MAX_MATCHES_PER_LINE)

FullVerified(line) ==
  verify_ac_matches(r, ps, line, FullCandidates(line), 1, <<>>, PLUMBR_MAX_MATCHES_PER_LINE)

\* The last call's output holds a byte copied from line[from .. to-1]
OutputCopies(from, to) ==
  \E k \in 1 .. Len(call.src) : call.src[k] >= from /\ call.src[k] < to

\* C1: fail-closed rewrite.  The buffer redactor_apply produces holds no input
\* byte from inside a merged verified match span, and when a prefix or a
\* replacement did not fit, no input byte at or after the point where copying
\* stopped.
C1_FailClosedRewrite ==
  (call # NULL /\ call.modified)
    => /\ \A i \in 1 .. Len(call.merged) :
            ~OutputCopies(call.merged[i].start, call.merged[i].end)
       /\ call.broke => ~OutputCopies(call.stop_at, Len(call.line))

\* C2: a line with regex-verified matches of two different patterns of the
\* full automaton comes back with both replaced, whether or not one of the
\* patterns is in the hot automaton.
C2_BothPatternsReplaced ==
  (/\ call # NULL
   /\ ~call.broke
   /\ \E i, j \in 1 .. Len(FullVerified(call.line)) :
        FullVerified(call.line)[i].pattern_id # FullVerified(call.line)[j].pattern_id)
    => /\ call.modified
       /\ \A i \in 1 .. Len(FullVerified(call.line)) :
            ~OutputCopies(FullVerified(call.line)[i].start, FullVerified(call.line)[i].end)

\* C3: a line in which the full automaton finds a pattern's literal and the
\* pattern's regex matches is not rejected by the sentinel stage and comes
\* back rewritten.
C3_SentinelNeverRejectsMatch ==
  (call # NULL /\ FullVerified(call.line) # <<>>)
    => call.path # "sentinel" /\ call.modified

\* C4: with more than 16 distinct first bytes at the root of the full
\* automaton, a line that holds a literal of the full automaton and none of
\* the 16 trigger bytes is not rejected by stage 0.
C4_PartialTriggersPass ==
  (/\ call # NULL
   /\ r.use_sse42
   /\ Cardinality({c \in Bytes : ac_get_root_transitions(ps.automaton)[c] # 0})
        > SSE_TRIGGER_MAX
   /\ FullCandidates(call.line) # <<>>
   /\ ~sse42_has_triggers(r.triggers, r.trigger_count, call.line))
    => call.path # "prefilter"

\* C6: the full automaton covers every pattern with a literal: each occurrence
\* of the literal in a line yields a candidate tagged with the pattern's id,
\* also when several patterns supply the same literal.
C6_EveryLiteralTagged ==
  (ps.built /\ r = NULL)
    => \A i \in 0 .. (ps.count - 1) : \A line \in Lines : \A pos \in 0 .. (Len(line) - 1) :
         (ps.patterns[i].has_literal /\ IsSuffixAt(ps.patterns[i].literal, line, pos))
           => \E k \in 1 .. Len(FullCandidates(line)) :
                /\ FullCandidates(line)[k].position = pos
                /\ FullCandidates(line)[k].pattern_id = ps.patterns[i].id

\* The state the automaton is in after reading lit from the root
RECURSIVE AcWalk(_, _, _, _)
AcWalk(a, lit, i, state) ==
  IF i >= Len(lit) THEN state
  ELSE AcWalk(a, lit, i + 1, a.states[state].goto_table[lit[i + 1]])

\* lit was inserted into the trie of the built automaton a
AcHasLiteral(a, lit) ==
  LET end == AcWalk(a, lit, 0, 0)
  IN a.states[end].depth = Len(lit) /\ a.states[end].is_final

\* C10: patterns_build does not return success (and mark the set built) when
\* the literal of some pattern is missing from the full automaton because its
\* insertion ran out of states.
C10_BuildFailsOnMissingLiteral ==
  ps.built
    => \A i \in 0 .. (ps.count - 1) :
         (ps.patterns[i].has_literal /\ ps.patterns[i].literal_len > 0)
           => AcHasLiteral(ps.automaton, ps.patterns[i].literal)

\* ------------------------------------------------------------------------
\* The barrier executor (src/parallel.c)
\* ------------------------------------------------------------------------

\* Scaled: 64 * 1024 in include/config.h
PLUMBR_MAX_LINE_SIZE == 16

\* Scaled: the callers pass the number of cores, capped at 12
MaxThreads == 2

\* The parallel_process calls of one run
MaxParBatches == 2

\* The thread that calls parallel_process and parallel_destroy, as a
\* participant of the barriers next to the workers 0 .. num_threads-1
MainThread == -1

\* What malloc left in a buffer nobody wrote yet
Indeterminate == <<-1>>

\* A barrier initialised for one participant too many
pthread_barrier_init_extra(count) == [count |-> count + 1, waiting |-> {}, released |-> {}]

\* pthread_barrier_init(&b, NULL, count): nobody waits
pthread_barrier_init(count) == [count |-> count, waiting |-> {}, released |-> {}]

\* A barrier that trips one arrival early
pthread_barrier_wait_early(b, t) ==
  IF Cardinality(b.waiting) + 2 >= b.count
  THEN [b EXCEPT !.waiting = {}, !.released = b.released \cup b.waiting \cup {t}]
  ELSE [b EXCEPT !.waiting = b.waiting \cup {t}]

\* Thread t enters pthread_barrier_wait(&b): the count-th arrival releases
\* every thread that waits, itself included; an earlier one waits
pthread_barrier_wait(b, t) ==
  IF Cardinality(b.waiting) + 1 = b.count
  THEN [b EXCEPT !.waiting = {}, !.released = b.released \cup b.waiting \cup {t}]
  ELSE [b EXCEPT !.waiting = b.waiting \cup {t}]

\* Thread t returns from pthread_barrier_wait(&b) once the barrier tripped
pthread_barrier_return(b, t) == [b EXCEPT !.released = b.released \ {t}]

\* A redactor_process whose result depends on what the redactor did before:
\* once it has scanned a line in this batch it hands every line back as it is
redactor_process_stale(rd, patterns, line) ==
  LET scan == redactor_scan(rd, patterns, line)
  IN IF scan.verified = <<>> \/ rd.lines_scanned > 0
     THEN {[r |-> scan.r, output |-> line, out_len |-> Len(line)]}
     ELSE {LET a == redactor_apply(scan.r, patterns, line, sorted)
           IN [r |-> a.r, output |-> a.out, out_len |-> a.out_len] :
             sorted \in qsort_results(scan.verified)}

\* redactor_process(r, line, len, &out_len): the outcomes qsort allows, each
\* the redactor afterwards, the bytes the returned pointer leads to, *out_len
redactor_process(rd, patterns, line) ==
  LET scan == redactor_scan(rd, patterns, line)
  IN IF scan.verified = <<>>
     THEN {[r |-> scan.r, output |-> line, out_len |-> Len(line)]}
     ELSE {LET a == redactor_apply(scan.r, patterns, line, sorted)
           IN [r |-> a.r, output |-> a.out, out_len |-> a.out_len] :
             sorted \in qsort_results(scan.verified)}

\* parallel_create(num_threads, patterns, max_line_size) with num_threads > 0,
\* every allocation and pthread_create succeeding: each worker thread starts
\* at the top of worker_func
parallel_create(num_threads, patterns, max_line_size, have_sse42) ==
  [num_threads |-> num_threads,
   max_line_size |-> max_line_size,
   start_barrier |-> pthread_barrier_init(num_threads + 1),
   done_barrier |-> pthread_barrier_init(num_threads + 1),
   shutdown |-> 0,
   total_patterns_matched |-> 0,
   total_lines_modified |-> 0,
   workers |-> Arr([i \in 0 .. (num_threads - 1) |->
                      [id |-> i, pc |-> "begin",
                       redactor |-> redactor_create(patterns, max_line_size, have_sse42),
                       start_idx |-> 0, end_idx |-> 0, i |-> 0,
                       patterns_matched |-> 0, lines_modified |-> 0]])]

\* A dispatch that hands every worker the whole batch
parallel_dispatch_all(workers, num_threads, count) ==
  Arr([i \in 0 .. (num_threads - 1) |->
         [workers[i] EXCEPT !.start_idx = 0, !.end_idx = count]])

\* parallel_process, "Distribute work": the workers with their ranges set
parallel_dispatch(workers, num_threads, count) ==
  LET per_thread == (count + num_threads - 1) \div num_threads
  IN Arr([i \in 0 .. (num_threads - 1) |->
            LET start == i * per_thread
                end == start + per_thread
            IN [workers[i] EXCEPT
                  !.start_idx = IF start > count THEN count ELSE start,
                  !.end_idx = IF end > count THEN count ELSE end]])

\* The loop body of worker_func for index i, on one outcome res of
\* redactor_process: what is written to outputs[i] and out_lengths[i] (wrote
\* FALSE: nothing) and whether lines_modified goes up
worker_copy(line, res) ==
  LET len == Len(line)
      copy_len == IF len < PLUMBR_MAX_LINE_SIZE - 1 THEN len ELSE PLUMBR_MAX_LINE_SIZE - 1
  IN IF res.out_len < PLUMBR_MAX_LINE_SIZE
     THEN [wrote |-> TRUE, output |-> res.output, out_len |-> res.out_len,
           modified |-> (res.out_len # len \/ res.output # line)]
     ELSE [wrote |-> TRUE, output |-> SubSeq(line, 1, copy_len), out_len |-> copy_len,
           modified |-> FALSE]

\* ssn|Rx|Rx1 and email|@|u@c|#, loaded and built as src/pipeline.c does
ParPatternFile == <<PatSsn, PatEmail>>

ParPatternSet ==
  patterns_build(patterns_load_file(patterns_create(PatternCapacity), ParPatternFile)).ps

\* Scaled: BATCH_SIZE (4096) output buffers in process_parallel_new
ParSlots == 3

\* max_line_size: src/pipeline.c passes PLUMBR_MAX_LINE_SIZE; parallel.h takes
\* any size
ParLineSizes == {PLUMBR_MAX_LINE_SIZE, 2 * PLUMBR_MAX_LINE_SIZE}

\* "Rx1aaa...": one byte longer than PLUMBR_MAX_LINE_SIZE
LongLine == <<82, 120, 49>> \o [k \in 1 .. (PLUMBR_MAX_LINE_SIZE - 2) |-> 97]

\* The lines arrays handed to parallel_process (index i of the code is
\* element i + 1): no line, "Rx1", "aRx1" "Rx1Rx1" "ca", LongLine "Rx1"
ParBatches ==
  { <<>>,
    << <<82, 120, 49>> >>,
    << <<97, 82, 120, 49>>, <<82, 120, 49, 82, 120, 49>>, <<99, 97>> >>,
    << LongLine, <<82, 120, 49>> >> }

\* The state after parallel_create and the allocation of the batch storage
ParStart ==
  /\ ps = ParPatternSet
  /\ r = NULL
  /\ ret = "none"
  /\ call = NULL
  /\ calls = 0
  /\ \E n \in 1 .. MaxThreads, size \in ParLineSizes :
       /\ pctx = parallel_create(n, ps, size, FALSE)
       /\ pvisits = [w \in 0 .. (n - 1) |-> [i \in 0 .. (ParSlots - 1) |-> 0]]
  /\ pcall = [pc |-> "idle", count |-> 0, ret |-> 0, join_i |-> 0]
  /\ lines = <<>>
  /\ outputs = [i \in 0 .. (ParSlots - 1) |-> Indeterminate]
  /\ out_lengths = [i \in 0 .. (ParSlots - 1) |-> -1]
  /\ pwritten = {}
  /\ pbatches = 0

ParInit == AcStart /\ ParStart /\ TpNone /\ AuxNone

\* The workers of the context
ParWorkers == IF pctx = NULL THEN {} ELSE DOMAIN pctx.workers

\* worker_func: pthread_barrier_wait(w->start_barrier), entered
WorkerStartWait(w) ==
  /\ w \in ParWorkers
  /\ pctx.workers[w].pc = "begin"
  /\ pctx' = [pctx EXCEPT !.start_barrier = pthread_barrier_wait(@, w),
                          !.workers[w].pc = "start_wait"]
  /\ UNCHANGED <<pcall, lines, outputs, out_lengths, pvisits, pwritten, pbatches>>
  /\ UNCHANGED <<acVars, plVars, tpVars, auxVars>>

\* A worker that does not look at the shutdown flag
WorkerStartUnchecked(w) ==
  /\ w \in ParWorkers
  /\ pctx.workers[w].pc = "start_wait"
  /\ w \in pctx.start_barrier.released
  /\ pctx' = [pctx EXCEPT
                !.start_barrier = pthread_barrier_return(@, w),
                !.workers[w].pc = "loop",
                !.workers[w].i = pctx.workers[w].start_idx]
  /\ UNCHANGED <<pcall, lines, outputs, out_lengths, pvisits, pwritten, pbatches>>
  /\ UNCHANGED <<acVars, plVars, tpVars, auxVars>>

\* worker_func: the start barrier tripped; "Check shutdown", then the loop
\* starts at start_idx
WorkerStart(w) ==
  /\ w \in ParWorkers
  /\ pctx.workers[w].pc = "start_wait"
  /\ w \in pctx.start_barrier.released
  /\ pctx' = [pctx EXCEPT
                !.start_barrier = pthread_barrier_return(@, w),
                !.workers[w].pc = IF pctx.shutdown # 0 THEN "exited" ELSE "loop",
                !.workers[w].i = IF pctx.shutdown # 0 THEN @
                                 ELSE pctx.workers[w].start_idx]
  /\ UNCHANGED <<pcall, lines, outputs, out_lengths, pvisits, pwritten, pbatches>>
  /\ UNCHANGED <<acVars, plVars, tpVars, auxVars>>

\* worker_func: i < w->end_idx holds at the head of the loop
WorkerInLoop(w) ==
  /\ w \in ParWorkers
  /\ pctx.workers[w].pc = "loop"
  /\ pctx.workers[w].i < pctx.workers[w].end_idx

\* worker_func: one pass of "Process assigned lines"
WorkerLine(w) ==
  /\ WorkerInLoop(w)
  /\ LET i == pctx.workers[w].i
         line == lines[i + 1]
     IN /\ pvisits' = [pvisits EXCEPT ![w][i] = @ + 1]
        /\ IF Len(line) > PLUMBR_MAX_LINE_SIZE
           THEN /\ pctx' = [pctx EXCEPT !.workers[w].i = i + 1]
                /\ UNCHANGED <<outputs, out_lengths, pwritten>>
           ELSE \E res \in redactor_process(pctx.workers[w].redactor, ps, line) :
                  LET c == worker_copy(line, res)
                  IN /\ pctx' = [pctx EXCEPT
                                   !.workers[w].i = i + 1,
                                   !.workers[w].redactor = res.r,
                                   !.workers[w].lines_modified =
                                      IF c.modified THEN @ + 1 ELSE @]
                     /\ outputs' = [outputs EXCEPT ![i] = c.output]
                     /\ out_lengths' = [out_lengths EXCEPT ![i] = c.out_len]
                     /\ pwritten' = pwritten \cup {i}
  /\ UNCHANGED <<pcall, lines, pbatches>>
  /\ UNCHANGED <<acVars, plVars, tpVars, auxVars>>

\* worker_func: the loop is over; "Collect stats from redactor", then
\* pthread_barrier_wait(w->done_barrier), entered
WorkerDoneWait(w) ==
  /\ w \in ParWorkers
  /\ pctx.workers[w].pc = "loop"
  /\ pctx.workers[w].i >= pctx.workers[w].end_idx
  /\ pctx' = [pctx EXCEPT
                !.workers[w].patterns_matched =
                   @ + pctx.workers[w].redactor.patterns_matched,
                !.workers[w].redactor = redactor_reset_stats(@),
                !.done_barrier = pthread_barrier_wait(@, w),
                !.workers[w].pc = "done_wait"]
  /\ UNCHANGED <<pcall, lines, outputs, out_lengths, pvisits, pwritten, pbatches>>
  /\ UNCHANGED <<acVars, plVars, tpVars, auxVars>>

\* worker_func: the done barrier tripped; back to the top of while (1) and
\* into pthread_barrier_wait(w->start_barrier)
WorkerDone(w) ==
  /\ w \in ParWorkers
  /\ pctx.workers[w].pc = "done_wait"
  /\ w \in pctx.done_barrier.released
  /\ pctx' = [pctx EXCEPT !.done_barrier = pthread_barrier_return(@, w),
                          !.start_barrier = pthread_barrier_wait(@, w),
                          !.workers[w].pc = "start_wait"]
  /\ UNCHANGED <<pcall, lines, outputs, out_lengths, pvisits, pwritten, pbatches>>
  /\ UNCHANGED <<acVars, plVars, tpVars, auxVars>>

\* parallel_process(ctx, lines, lengths, outputs, out_lengths, count) up to
\* pthread_barrier_wait(&ctx->start_barrier), entered; lengths[i] is the
\* length of lines[i]
ParallelProcess(batch) ==
  /\ pcall # NULL
  /\ pcall.pc = "idle"
  /\ pbatches < MaxParBatches
  /\ pbatches' = pbatches + 1
  /\ lines' = batch
  /\ IF Len(batch) = 0
     THEN /\ pcall' = [pcall EXCEPT !.count = 0, !.ret = -1]
          /\ UNCHANGED <<pctx, pvisits, pwritten>>
     ELSE /\ pctx' = [pctx EXCEPT
                        !.workers = parallel_dispatch(@, pctx.num_threads, Len(batch)),
                        !.start_barrier = pthread_barrier_wait(@, MainThread)]
          /\ pcall' = [pcall EXCEPT !.pc = "start_wait", !.count = Len(batch)]
          /\ pvisits' = [w \in DOMAIN pvisits |-> [i \in DOMAIN pvisits[w] |-> 0]]
          /\ pwritten' = {}
  /\ UNCHANGED <<outputs, out_lengths>>
  /\ UNCHANGED <<acVars, plVars, tpVars, auxVars>>

\* parallel_process: the start barrier tripped;
\* pthread_barrier_wait(&ctx->done_barrier), entered
ParallelProcessWait ==
  /\ pcall # NULL
  /\ pcall.pc = "start_wait"
  /\ MainThread \in pctx.start_barrier.released
  /\ pctx' = [pctx EXCEPT !.start_barrier = pthread_barrier_return(@, MainThread),
                          !.done_barrier = pthread_barrier_wait(@, MainThread)]
  /\ pcall' = [pcall EXCEPT !.pc = "done_wait"]
  /\ UNCHANGED <<lines, outputs, out_lengths, pvisits, pwritten, pbatches>>
  /\ UNCHANGED <<acVars, plVars, tpVars, auxVars>>

\* parallel_process: the done barrier tripped; return (int)count
ParallelProcessReturn ==
  /\ pcall # NULL
  /\ pcall.pc = "done_wait"
  /\ MainThread \in pctx.done_barrier.released
  /\ pctx' = [pctx EXCEPT !.done_barrier = pthread_barrier_return(@, MainThread)]
  /\ pcall' = [pcall EXCEPT !.pc = "idle", !.ret = pcall.count]
  /\ UNCHANGED <<lines, outputs, out_lengths, pvisits, pwritten, pbatches>>
  /\ UNCHANGED <<acVars, plVars, tpVars, auxVars>>

\* parallel_destroy(ctx) up to pthread_barrier_wait(&ctx->start_barrier),
\* entered
ParallelDestroy ==
  /\ pcall # NULL
  /\ pcall.pc = "idle"
  /\ pctx' = [pctx EXCEPT !.shutdown = 1,
                          !.start_barrier = pthread_barrier_wait(@, MainThread)]
  /\ pcall' = [pcall EXCEPT !.pc = "destroy_wait"]
  /\ UNCHANGED <<lines, outputs, out_lengths, pvisits, pwritten, pbatches>>
  /\ UNCHANGED <<acVars, plVars, tpVars, auxVars>>

\* parallel_destroy: the start barrier tripped; "Wait for threads to exit"
\* begins with worker 0
ParallelDestroyWoke ==
  /\ pcall # NULL
  /\ pcall.pc = "destroy_wait"
  /\ MainThread \in pctx.start_barrier.released
  /\ pctx' = [pctx EXCEPT !.start_barrier = pthread_barrier_return(@, MainThread)]
  /\ pcall' = [pcall EXCEPT !.pc = "join", !.join_i = 0]
  /\ UNCHANGED <<lines, outputs, out_lengths, pvisits, pwritten, pbatches>>
  /\ UNCHANGED <<acVars, plVars, tpVars, auxVars>>

\* parallel_destroy: pthread_join of worker join_i returns once its thread
\* left worker_func; after the last one the context is freed
ParallelDestroyJoin ==
  /\ pcall # NULL
  /\ pcall.pc = "join"
  /\ pcall.join_i < pctx.num_threads
  /\ pctx.workers[pcall.join_i].pc = "exited"
  /\ pcall' = [pcall EXCEPT
                 !.join_i = @ + 1,
                 !.pc = IF pcall.join_i + 1 = pctx.num_threads THEN "destroyed" ELSE @]
  /\ UNCHANGED <<pctx, lines, outputs, out_lengths, pvisits, pwritten, pbatches>>
  /\ UNCHANGED <<acVars, plVars, tpVars, auxVars>>

\* The steps of worker w other than a pass of the loop
WorkerSync(w) ==
  \/ WorkerStartWait(w)
  \/ WorkerStart(w)
  \/ WorkerDoneWait(w)
  \/ WorkerDone(w)

\* The steps of the calling thread inside a call it made
CallerStep ==
  \/ ParallelProcessWait
  \/ ParallelProcessReturn
  \/ ParallelDestroyWoke
  \/ ParallelDestroyJoin

ParNext ==
  \/ \E w \in 0 .. (MaxThreads - 1) : WorkerSync(w) \/ WorkerLine(w)
  \/ \E batch \in ParBatches : ParallelProcess(batch)
  \/ ParallelDestroy
  \/ CallerStep

SpecPar == ParInit /\ [][ParNext]_vars

\* The scheduler runs every thread that can run: weak fairness of the caller's
\* steps inside a call and of each worker's steps.  For WorkerLine the
\* condition is written out, []<>~ENABLED \/ []<><<A>>_vars, with
\* WorkerInLoop, the guard of WorkerLine, as its ENABLED (a pass of the loop
\* always advances i).
FairSpecPar ==
  /\ SpecPar
  /\ WF_vars(CallerStep)
  /\ \A w \in 0 .. (MaxThreads - 1) :
       /\ WF_vars(WorkerSync(w))
       /\ ([]<>(~WorkerInLoop(w)) \/ []<><<WorkerLine(w)>>_vars)

\* ------------------------------------------------------------------------
\* Properties of the barrier executor (SpecPar, FairSpecPar)
\* ------------------------------------------------------------------------

\* The indices worker w was handed by the last dispatch
WorkerRange(w) == pctx.workers[w].start_idx .. (pctx.workers[w].end_idx - 1)

\* The calling thread is past the start barrier of a parallel_process call
\* and has not returned from it
BatchRunning ==
  \/ pcall.pc = "done_wait"
  \/ pcall.pc = "start_wait" /\ MainThread \in pctx.start_barrier.released

\* parallel_process returned count for the batch in lines
BatchReturned == pcall.pc = "idle" /\ pcall.ret > 0 /\ pcall.ret = Len(lines)

\* C11: under every interleaving of the caller and the workers, a worker runs
\* the loop body at most once per index of its range and never for another
\* index, it is in the loop only while a dispatched batch runs, and when
\* parallel_process has returned every worker has run the loop body exactly
\* once for every index of its range and has left the loop.
C11_BatchExactlyOnce ==
  pctx # NULL
    => /\ \A w \in ParWorkers : \A i \in 0 .. (ParSlots - 1) :
            pvisits[w][i] <= (IF i \in WorkerRange(w) THEN 1 ELSE 0)
       /\ \A w \in ParWorkers : pctx.workers[w].pc = "loop" => BatchRunning
       /\ BatchReturned
            => \A w \in ParWorkers :
                 /\ pctx.workers[w].pc \in {"done_wait", "start_wait"}
                 /\ \A i \in WorkerRange(w) : pvisits[w][i] = 1

\* Two workers have each run their part of the second batch, of three lines,
\* and parallel_process has returned 3
C11_Witness ==
  /\ pctx # NULL
  /\ pctx.num_threads = 2
  /\ pbatches = 2
  /\ BatchReturned
  /\ Len(lines) = 3
  /\ pvisits[0][0] = 1 /\ pvisits[0][1] = 1 /\ pvisits[1][2] = 1

\* The calling thread is inside a parallel_process call that passed the
\* argument check
InParallelProcess == pcall.pc \in {"start_wait", "done_wait"}

\* C12: under fair scheduling every parallel_process call with valid
\* arguments eventually returns, batch after batch, also when count is
\* smaller than the number of workers and some worker has an empty range.
C12_ProcessReturns == InParallelProcess ~> (pcall.pc = "idle")

\* The second call, of one line to two workers, has returned: worker 1 had the
\* empty range [1, 1)
C12_Witness ==
  /\ pctx # NULL
  /\ pctx.num_threads = 2
  /\ pbatches = 2
  /\ BatchReturned
  /\ Len(lines) = 1
  /\ pctx.workers[1].start_idx = 1 /\ pctx.workers[1].end_idx = 1
  /\ pvisits[0][0] = 1

\* A redactor as parallel_create gives every worker, before its first line
FreshRedactor == redactor_create(ps, pctx.max_line_size, FALSE)

\* C14: when parallel_process has returned count, every slot i < count was
\* written during the call, and outputs[i], out_lengths[i] are the bytes and
\* the length redactor_process yields for lines[i].
C14_SlotsHoldRedaction ==
  (pctx # NULL /\ BatchReturned)
    => \A i \in 0 .. (Len(lines) - 1) :
         /\ i \in pwritten
         /\ \E res \in redactor_process(FreshRedactor, ps, lines[i + 1]) :
              outputs[i] = res.output /\ out_lengths[i] = res.out_len

ShutdownQuiet ==
  (pctx # NULL /\ pctx.shutdown # 0)
    => /\ pctx.done_barrier.waiting = {}
       /\ \A w \in ParWorkers :
            /\ pctx.workers[w].pc # "loop"
            /\ pctx.workers[w].pc = "done_wait" => w \in pctx.done_barrier.released
       /\ pcall.pc \in {"join", "destroyed"}
            => /\ pctx.start_barrier.waiting = {}
               /\ \A w \in ParWorkers : pctx.workers[w].pc \in {"start_wait", "exited"}
       /\ pcall.pc = "destroyed"
            => \A w \in ParWorkers : pctx.workers[w].pc = "exited"

\* C17: parallel_destroy, called between batches, sets the shutdown flag and
\* trips the start barrier; from then on no worker processes a line or waits
\* at the done barrier, the start barrier is not waited at again, and (under
\* fair scheduling) every worker thread ends, is joined, and parallel_destroy
\* returns.
C17_Shutdown ==
  /\ []ShutdownQuiet
  /\ [][(pctx # NULL /\ pctx.shutdown # 0)
          => /\ pvisits' = pvisits
             /\ outputs' = outputs
             /\ out_lengths' = out_lengths]_vars
  /\ (pcall.pc \in {"destroy_wait", "join"}) ~> (pcall.pc = "destroyed")

\* parallel_destroy has returned after a batch that two workers ran
C17_Witness ==
  /\ pctx # NULL
  /\ pctx.num_threads = 2
  /\ pctx.shutdown = 1
  /\ pbatches >= 1
  /\ pwritten # {}
  /\ pcall.pc = "destroyed"
  /\ pcall.join_i = 2
  /\ \A w \in ParWorkers : pctx.workers[w].pc = "exited"

\* ------------------------------------------------------------------------
\* The generation-counter thread pool (src/thread_pool.c).  A region between
\* pthread_mutex_lock and the pthread_mutex_unlock or pthread_cond_wait that
\* ends it is one step: it runs when the mutex is free and leaves it free.
\* pthread_cond_wait returns only after a signal or broadcast.
\* ------------------------------------------------------------------------

\* Scaled: threadpool_optimal_threads caps the number of workers at 16
MaxPoolThreads == 2

\* The threadpool_process_batch calls of one run
MaxTpBatches == 3

\* threadpool_create(num_threads, patterns, max_line_size) with num_threads > 0,
\* every allocation and pthread_create succeeding.  work_cond and done_cond
\* hold the threads that wait on the condition.
threadpool_create(num_threads, patterns, max_line_size, have_sse42) ==
  [num_threads |-> num_threads,
   max_line_size |-> max_line_size,
   work_cond |-> {},
   done_cond |-> {},
   generation |-> 0,
   workers_done |-> 0,
   shutdown |-> 0,
   workers |-> Arr([i \in 0 .. (num_threads - 1) |->
                      [id |-> i, pc |-> "top", my_gen |-> 0,
                       redactor |-> redactor_create(patterns, max_line_size, have_sse42),
                       start_idx |-> 0, end_idx |-> 0, i |-> 0,
                       patterns_matched |-> 0, lines_modified |-> 0]])]

\* A distribution that gives every worker with work the rest of the batch
threadpool_dispatch_overlap(workers, num_threads, count) ==
  LET items_per_thread == (count + num_threads - 1) \div num_threads
  IN Arr([i \in 0 .. (num_threads - 1) |->
            LET start == i * items_per_thread
            IN [workers[i] EXCEPT
                  !.start_idx = IF start >= count THEN 0 ELSE start,
                  !.end_idx = IF start >= count THEN 0 ELSE count]])

\* threadpool_process_batch, "Distribute work among threads"
threadpool_dispatch(workers, num_threads, count) ==
  LET items_per_thread == (count + num_threads - 1) \div num_threads
  IN Arr([i \in 0 .. (num_threads - 1) |->
            LET start == i * items_per_thread
                end == IF start + items_per_thread > count THEN count
                       ELSE start + items_per_thread
            IN [workers[i] EXCEPT
                  !.start_idx = IF start >= count THEN 0 ELSE start,
                  !.end_idx = IF start >= count THEN 0 ELSE end]])

\* pthread_cond_broadcast(&pool->work_cond): every worker that waits on the
\* condition returns from pthread_cond_wait to the head of its wait loop
pthread_cond_broadcast(workers, cond) ==
  Arr([i \in DOMAIN workers |->
         IF i \in cond THEN [workers[i] EXCEPT !.pc = "top"] ELSE workers[i]])

\* A WorkItem of the caller for one input line
WorkItem(line, output_cap) ==
  [input |-> line, output |-> Indeterminate, output_len |-> -1,
   output_cap |-> output_cap, modified |-> FALSE]

\* The items arrays handed to threadpool_process_batch: none, "Rx1",
\* "aRx1" "Rx1Rx1" "ca"
TpBatches ==
  { <<>>,
    << <<82, 120, 49>> >>,
    << <<97, 82, 120, 49>>, <<82, 120, 49, 82, 120, 49>>, <<99, 97>> >> }

\* The state after threadpool_create
TpStart ==
  /\ ps = ParPatternSet
  /\ r = NULL
  /\ ret = "none"
  /\ call = NULL
  /\ calls = 0
  /\ \E n \in 1 .. MaxPoolThreads :
       /\ pool = threadpool_create(n, ps, PLUMBR_MAX_LINE_SIZE, FALSE)
       /\ tvisits = [w \in 0 .. (n - 1) |-> [i \in 0 .. (ParSlots - 1) |-> 0]]
  /\ tcall = [pc |-> "idle", count |-> 0, ret |-> 0, join_i |-> 0]
  /\ items = <<>>
  /\ tbatches = 0

TpInit == AcStart /\ TpStart /\ ParNone /\ AuxNone

PoolWorkers == IF pool = NULL THEN {} ELSE DOMAIN pool.workers

\* worker_thread: pthread_mutex_lock, the wait loop, and either
\* pthread_cond_wait or pthread_mutex_unlock
TpWorkerWait(w) ==
  /\ w \in PoolWorkers
  /\ pool.workers[w].pc = "top"
  /\ pool' = IF pool.generation <= pool.workers[w].my_gen /\ pool.shutdown = 0
             THEN [pool EXCEPT !.workers[w].pc = "waiting",
                               !.work_cond = @ \cup {w}]
             ELSE [pool EXCEPT !.workers[w].pc = "unlocked"]
  /\ UNCHANGED <<tcall, items, tvisits, tbatches>>
  /\ UNCHANGED <<acVars, plVars, parVars, auxVars>>

\* worker_thread: "Check for shutdown", "Update my generation", and the loop
\* starts at start_idx
TpWorkerBegin(w) ==
  /\ w \in PoolWorkers
  /\ pool.workers[w].pc = "unlocked"
  /\ pool' = IF pool.shutdown # 0
             THEN [pool EXCEPT !.workers[w].pc = "exited"]
             ELSE [pool EXCEPT !.workers[w].pc = "run",
                               !.workers[w].my_gen = pool.generation,
                               !.workers[w].i = pool.workers[w].start_idx]
  /\ UNCHANGED <<tcall, items, tvisits, tbatches>>
  /\ UNCHANGED <<acVars, plVars, parVars, auxVars>>

\* worker_thread: i < ctx->end_idx holds at the head of the loop
TpWorkerInLoop(w) ==
  /\ w \in PoolWorkers
  /\ pool.workers[w].pc = "run"
  /\ pool.workers[w].i < pool.workers[w].end_idx

\* worker_thread: one pass of "Process assigned work items"
TpWorkerItem(w) ==
  /\ TpWorkerInLoop(w)
  /\ LET i == pool.workers[w].i
         item == items[i + 1]
     IN /\ tvisits' = [tvisits EXCEPT ![w][i] = @ + 1]
        /\ \E res \in redactor_process(pool.workers[w].redactor, ps, item.input) :
             LET fits == res.out_len < item.output_cap
                 modified == res.out_len # Len(item.input) \/ res.output # item.input
             IN /\ pool' = [pool EXCEPT
                              !.workers[w].i = i + 1,
                              !.workers[w].redactor = res.r,
                              !.workers[w].lines_modified =
                                 IF fits /\ modified THEN @ + 1 ELSE @]
                /\ items' = IF fits
                            THEN [items EXCEPT ![i + 1].output = res.output,
                                               ![i + 1].output_len = res.out_len,
                                               ![i + 1].modified = modified]
                            ELSE items
  /\ UNCHANGED <<tcall, tbatches>>
  /\ UNCHANGED <<acVars, plVars, parVars, auxVars>>

\* worker_thread: the loop is over; "Update stats from redactor" and "Signal
\* completion": pthread_cond_signal(done_cond) wakes the caller if it waits
TpWorkerSignal(w) ==
  /\ w \in PoolWorkers
  /\ pool.workers[w].pc = "run"
  /\ pool.workers[w].i >= pool.workers[w].end_idx
  /\ LET done == pool.workers_done + 1
         signal == done >= pool.generation \div 1
     IN /\ pool' = [pool EXCEPT
                      !.workers[w].patterns_matched =
                         @ + pool.workers[w].redactor.patterns_matched,
                      !.workers[w].redactor = redactor_reset_stats(@),
                      !.workers_done = done,
                      !.done_cond = IF signal THEN {} ELSE @,
                      !.workers[w].pc = "top"]
        /\ tcall' = IF signal /\ MainThread \in pool.done_cond
                    THEN [tcall EXCEPT !.pc = "woken"]
                    ELSE tcall
  /\ UNCHANGED <<items, tvisits, tbatches>>
  /\ UNCHANGED <<acVars, plVars, parVars, auxVars>>

\* threadpool_process_batch(pool, items, count) up to the first
\* pthread_cond_wait(&pool->done_cond): workers_done was just set to 0
ThreadpoolProcessBatch(batch) ==
  /\ tcall # NULL
  /\ tcall.pc = "idle"
  /\ tbatches < MaxTpBatches
  /\ tbatches' = tbatches + 1
  /\ items' = [k \in 1 .. Len(batch) |-> WorkItem(batch[k], PLUMBR_MAX_LINE_SIZE)]
  /\ IF Len(batch) = 0
     THEN /\ tcall' = [tcall EXCEPT !.count = 0, !.ret = -1]
          /\ UNCHANGED <<pool, tvisits>>
     ELSE /\ pool' = [pool EXCEPT
                        !.workers = pthread_cond_broadcast(
                                      threadpool_dispatch(@, pool.num_threads, Len(batch)),
                                      pool.work_cond),
                        !.work_cond = {},
                        !.workers_done = 0,
                        !.generation = @ + 1,
                        !.done_cond = {MainThread}]
          /\ tcall' = [tcall EXCEPT !.pc = "done_wait", !.count = Len(batch)]
          /\ tvisits' = [w \in DOMAIN tvisits |-> [i \in DOMAIN tvisits[w] |-> 0]]
  /\ UNCHANGED <<acVars, plVars, parVars, auxVars>>

\* threadpool_process_batch: pthread_cond_wait returned; the loop condition
\* again, and either the next pthread_cond_wait or unlock and return 0
ThreadpoolProcessWoke ==
  /\ tcall # NULL
  /\ tcall.pc = "woken"
  /\ IF pool.workers_done < pool.num_threads
     THEN /\ pool' = [pool EXCEPT !.done_cond = {MainThread}]
          /\ tcall' = [tcall EXCEPT !.pc = "done_wait"]
     ELSE /\ tcall' = [tcall EXCEPT !.pc = "idle", !.ret = 0]
          /\ UNCHANGED pool
  /\ UNCHANGED <<items, tvisits, tbatches>>
  /\ UNCHANGED <<acVars, plVars, parVars, auxVars>>

\* threadpool_destroy(pool), "Signal shutdown"
ThreadpoolDestroy ==
  /\ tcall # NULL
  /\ tcall.pc = "idle"
  /\ pool' = [pool EXCEPT !.shutdown = 1,
                          !.workers = pthread_cond_broadcast(@, pool.work_cond),
                          !.work_cond = {}]
  /\ tcall' = [tcall EXCEPT !.pc = "join", !.join_i = 0]
  /\ UNCHANGED <<items, tvisits, tbatches>>
  /\ UNCHANGED <<acVars, plVars, parVars, auxVars>>

\* threadpool_destroy: pthread_join of worker join_i returns once its thread
\* left worker_thread; after the last one the pool is freed
ThreadpoolDestroyJoin ==
  /\ tcall # NULL
  /\ tcall.pc = "join"
  /\ tcall.join_i < pool.num_threads
  /\ pool.workers[tcall.join_i].pc = "exited"
  /\ tcall' = [tcall EXCEPT
                 !.join_i = @ + 1,
                 !.pc = IF tcall.join_i + 1 = pool.num_threads THEN "destroyed" ELSE @]
  /\ UNCHANGED <<pool, items, tvisits, tbatches>>
  /\ UNCHANGED <<acVars, plVars, parVars, auxVars>>

\* The steps of pool worker w other than a pass of the loop
TpWorkerSync(w) ==
  \/ TpWorkerWait(w)
  \/ TpWorkerBegin(w)
  \/ TpWorkerSignal(w)

\* The steps of the calling thread inside a call it made
TpCallerStep ==
  \/ ThreadpoolProcessWoke
  \/ ThreadpoolDestroyJoin

TpNext ==
  \/ \E w \in 0 .. (MaxPoolThreads - 1) : TpWorkerSync(w) \/ TpWorkerItem(w)
  \/ \E batch \in TpBatches : ThreadpoolProcessBatch(batch)
  \/ ThreadpoolDestroy
  \/ TpCallerStep

SpecTP == TpInit /\ [][TpNext]_vars

\* The scheduler runs every thread that can run; the fairness of TpWorkerItem
\* is written out as that of WorkerLine in FairSpecPar
FairSpecTP ==
  /\ SpecTP
  /\ WF_vars(TpCallerStep)
  /\ \A w \in 0 .. (MaxPoolThreads - 1) :
       /\ WF_vars(TpWorkerSync(w))
       /\ ([]<>(~TpWorkerInLoop(w)) \/ []<><<TpWorkerItem(w)>>_vars)

\* The calling thread is inside a threadpool_process_batch call that passed
\* the argument check
InProcessBatch == tcall.pc \in {"done_wait", "woken"}

\* C13: under fair scheduling, with no spurious wakeup, every
\* threadpool_process_batch call eventually returns, also for a batch whose
\* generation number is greater than the number of workers.
C13_BatchReturns == InProcessBatch ~> (tcall.pc = "idle")

\* pthread_cond_wait may return without a signal: the caller in
\* threadpool_process_batch, or a worker in worker_thread, goes back to the
\* head of its wait loop
TpSpuriousWakeup ==
  /\ pool # NULL
  /\ \/ /\ tcall.pc = "done_wait"
        /\ MainThread \in pool.done_cond
        /\ pool' = [pool EXCEPT !.done_cond = {}]
        /\ tcall' = [tcall EXCEPT !.pc = "woken"]
     \/ /\ \E w \in pool.work_cond :
             pool' = [pool EXCEPT !.workers[w].pc = "top",
                                  !.work_cond = @ \ {w}]
        /\ UNCHANGED tcall
  /\ UNCHANGED <<items, tvisits, tbatches>>
  /\ UNCHANGED <<acVars, plVars, parVars, auxVars>>

\* The pool under every interleaving pthread allows
SpecTPWake == TpInit /\ [][TpNext \/ TpSpuriousWakeup]_vars

\* C38: under every interleaving, a worker that starts on a batch moves to a
\* later generation than the last one it processed; a worker runs the loop
\* body only for indices of the range it was given for this generation; the
\* caller dispatches a batch only when no worker is between its wait loop and
\* its completion signal, where it reads its range; and when
\* threadpool_process_batch returns 0 every item of the batch was processed
\* exactly once.
C38_PoolSafety ==
  [][pool # NULL /\ pool' # NULL
       => /\ \A w \in PoolWorkers :
               /\ (pool.workers[w].pc = "unlocked" /\ pool'.workers[w].pc = "run")
                    => pool'.workers[w].my_gen > pool.workers[w].my_gen
               /\ tvisits'[w] # tvisits[w] /\ pool'.generation = pool.generation
                    => \A i \in 0 .. (ParSlots - 1) :
                         tvisits'[w][i] # tvisits[w][i]
                           => /\ pool.workers[w].start_idx <= i
                              /\ i < pool.workers[w].end_idx
                              /\ pool.workers[w].my_gen = pool.generation
          /\ pool'.generation # pool.generation
               => \A w \in PoolWorkers :
                    /\ pool.workers[w].pc \in {"top", "waiting"}
                    /\ pool.workers[w].my_gen = pool.generation
          /\ (tcall.pc = "woken" /\ tcall'.pc = "idle")
               => /\ tcall'.ret = 0
                  /\ \A i \in 0 .. (ParSlots - 1) :
                       Cardinality({w \in PoolWorkers : tvisits[w][i] = 1})
                         = (IF i < tcall.count THEN 1 ELSE 0)
                  /\ \A w \in PoolWorkers : \A i \in 0 .. (ParSlots - 1) :
                       tvisits[w][i] <= 1]_vars

\* the third batch of a pool of two workers, whose completion no worker
\* signals, has returned after a wakeup without a signal: its three items were
\* processed, two by worker 0 and one by worker 1
C38_Witness ==
  /\ pool # NULL
  /\ pool.num_threads = 2
  /\ pool.generation = 3
  /\ tcall.pc = "idle"
  /\ tcall.ret = 0
  /\ tcall.count = 3
  /\ tvisits[0][0] = 1 /\ tvisits[0][1] = 1 /\ tvisits[1][2] = 1
  /\ pool.workers[0].my_gen = 3 /\ pool.workers[1].my_gen = 3

\* ------------------------------------------------------------------------
\* The dispatch of both executors
\* ------------------------------------------------------------------------

\* The counts and thread numbers the dispatch arithmetic is checked for
MaxDispatchCount == 9

MaxDispatchThreads == 4

\* Workers with nothing but a range, for the dispatch on its own
BlankWorkers(n) == [i \in 0 .. (n - 1) |-> [start_idx |-> 0, end_idx |-> 0]]

\* The ranges of workers 0 .. n-1 split [0, count): each lies within
\* [0, count], every index is in exactly one of them, and the non-empty ones
\* follow one another without a gap, in worker order, from 0 to count
RangesPartition(workers, n, count) ==
  LET full == {w \in 0 .. (n - 1) : workers[w].start_idx < workers[w].end_idx}
  IN /\ \A w \in 0 .. (n - 1) :
          /\ 0 <= workers[w].start_idx
          /\ workers[w].start_idx <= workers[w].end_idx
          /\ workers[w].end_idx <= count
     /\ \A i \in 0 .. (count - 1) :
          Cardinality({w \in 0 .. (n - 1) :
                         workers[w].start_idx <= i /\ i < workers[w].end_idx}) = 1
     /\ \A w \in full :
          /\ workers[w].start_idx = 0 \/ \E v \in full : v < w /\ workers[v].end_idx = workers[w].start_idx
          /\ \A v \in full : v < w => workers[v].end_idx <= workers[w].start_idx

\* C15: for every count >= 1 and N >= 1 the dispatch of parallel_process and
\* that of threadpool_process_batch split [0, count) into ranges, one per
\* worker, that are contiguous, pairwise disjoint, within [0, count] and cover
\* it; and in a batch a worker runs the loop body, the only place that writes
\* outputs and out_lengths, for indices of its own range only, so no slot is
\* written by two workers.
C15_RangesPartition ==
  /\ (pctx # NULL /\ pbatches = 0)
       => \A n \in 1 .. MaxDispatchThreads : \A count \in 1 .. MaxDispatchCount :
            /\ RangesPartition(parallel_dispatch(BlankWorkers(n), n, count), n, count)
            /\ RangesPartition(threadpool_dispatch(BlankWorkers(n), n, count), n, count)
  /\ (pctx # NULL /\ (InParallelProcess \/ BatchReturned))
       => /\ RangesPartition(pctx.workers, pctx.num_threads, Len(lines))
          /\ \A i \in 0 .. (ParSlots - 1) :
               /\ Cardinality({w \in ParWorkers : pvisits[w][i] > 0}) <= 1
               /\ \A w \in ParWorkers : pvisits[w][i] > 0 => i \in WorkerRange(w)
               /\ i \in pwritten => \E w \in ParWorkers : pvisits[w][i] > 0

\* Two workers are in a batch of three lines; worker 0 has written slots 0 and
\* 1, worker 1 slot 2, and the caller still waits at the done barrier
C15_Witness ==
  /\ pctx # NULL
  /\ pctx.num_threads = 2
  /\ pcall.pc = "done_wait"
  /\ Len(lines) = 3
  /\ pwritten = {0, 1, 2}
  /\ pvisits[0][0] = 1 /\ pvisits[0][1] = 1 /\ pvisits[1][2] = 1
  /\ pctx.workers[0].end_idx = 2 /\ pctx.workers[1].start_idx = 2

\* ------------------------------------------------------------------------
\* redactor_apply on its own: every list of verified matches that
\* verify_ac_matches can hand it for a line (start <= end <= len, the id of a
\* pattern of the set)
\* ------------------------------------------------------------------------

\* The longest verified list (PLUMBR_MAX_MATCHES_PER_LINE in the code)
MaxVerified == 2

\* "Rx1", "aRx@"
ApplyLines == { <<82, 120, 49>>, <<97, 82, 120, 64>> }

\* The lists verify_ac_matches can fill: ovector[0] <= ovector[1] <= len
VerifiedLists(line) ==
  LET MatchesOf ==
        {[start |-> x[1], end |-> x[2], pattern_id |-> p] :
           x \in {y \in (0 .. Len(line)) \X (0 .. Len(line)) : y[1] <= y[2]},
           p \in 0 .. (ps.count - 1)}
  IN UNION {[1 .. n -> MatchesOf] : n \in 1 .. MaxVerified}

\* A built pattern set (ssn, email) and a redactor over it
ApplyInit ==
  /\ AcStart /\ ParNone /\ TpNone /\ AuxNone
  /\ ps = ParPatternSet
  /\ \E cap \in OutputCapacities : r = redactor_create(ps, cap, FALSE)
  /\ ret = "none"
  /\ call = NULL
  /\ calls = 0

\* redactor_apply(r, line, len, verified, num_verified, &out_len)
RedactorApply(line, verified) ==
  /\ r # NULL
  /\ calls = 0
  /\ calls' = calls + 1
  /\ \E sorted \in qsort_results(verified) :
       LET a == redactor_apply(r, ps, line, sorted)
       IN /\ r' = a.r
          /\ call' = [line |-> line, path |-> "apply", modified |-> TRUE,
                      verified |-> verified, merged |-> a.merged,
                      out |-> a.out, out_len |-> a.out_len, src |-> a.src,
                      broke |-> a.broke, stop_at |-> a.stop_at]
  /\ UNCHANGED <<ps, ret>>
  /\ UNCHANGED <<acVars, parVars, tpVars, auxVars>>

\* One redactor_apply per behaviour
ApplyNext ==
  /\ calls = 0
  /\ \E line \in ApplyLines : \E verified \in VerifiedLists(line) :
       RedactorApply(line, verified)

SpecApply == ApplyInit /\ [][ApplyNext]_vars

\* C18: after the sort-and-merge step the rewrite list is sorted by start
\* ascending and any two of its matches have disjoint [start, end) intervals.
C18_MergedSortedDisjoint ==
  call # NULL
    => \A i, j \in 1 .. Len(call.merged) :
         i < j => /\ call.merged[i].start <= call.merged[j].start
                  /\ (call.merged[i].start .. (call.merged[i].end - 1))
                       \cap (call.merged[j].start .. (call.merged[j].end - 1)) = {}

\* Two overlapping matches and their merge: [0,2) and [1,3) became [0,3)
C18_Witness ==
  /\ call # NULL
  /\ Len(call.verified) = 2
  /\ call.verified[1].start = 1 /\ call.verified[1].end = 3
  /\ call.verified[2].start = 0 /\ call.verified[2].end = 2
  /\ Len(call.merged) = 1
  /\ call.merged[1].start = 0 /\ call.merged[1].end = 3

\* Two matches share a byte of the line
Overlaps(a, b) == a.start < b.end /\ b.start < a.end

\* The matches of vs chained to those of S by overlaps
RECURSIVE OverlapGroup(_, _)
OverlapGroup(vs, S) ==
  LET S2 == S \cup {b \in vs : \E a \in S : Overlaps(a, b)}
  IN IF S2 = S THEN S ELSE OverlapGroup(vs, S2)

\* The sum of the replacement lengths of the patterns of a list of matches
RECURSIVE ReplacementSum(_, _)
ReplacementSum(patterns, ms) ==
  IF ms = <<>> THEN 0
  ELSE LET pat == patterns_get(patterns, ms[1].pattern_id)
       IN (IF pat = NULL THEN 0 ELSE pat.replacement_len)
            + ReplacementSum(patterns, Tail(ms))

NoMatchPaths == {"empty", "prefilter", "sentinel", "cold_none", "cold_unverified"}

\* C21: a redactor_process call that finds no verified match (empty line,
\* pre-filter reject, sentinel reject, no candidates, no candidate verified)
\* returns the input pointer with out_len equal to the input length and
\* leaves the output buffer of the redactor as it was.
C21_NoMatchFrame ==
  [][(r # NULL /\ calls' = calls + 1)
       => /\ call'.path \in NoMatchPaths \cup {"hot", "cold"}
          /\ (call'.verified = <<>>) <=> (call'.path \in NoMatchPaths)
          /\ call'.path \in NoMatchPaths
               => /\ ~call'.modified
                  /\ call'.out = call'.line
                  /\ call'.out_len = Len(call'.line)
                  /\ r'.output_buf = r.output_buf
                  /\ r'.output_capacity = r.output_capacity]_vars

\* "Rx" under ssn|Rx|Rx1: a candidate that the regex does not verify
C21_Witness ==
  /\ call # NULL
  /\ call.path = "cold_unverified"
  /\ call.line = <<82, 120>>
  /\ ~call.modified
  /\ call.out_len = 2

\* ------------------------------------------------------------------------
\* The library handle: libplumbr_new, libplumbr_redact,
\* libplumbr_redact_inplace (src/libplumbr.c), and redactor_process called on
\* a redactor of the same configuration
\* ------------------------------------------------------------------------

MaxLibCalls == 2

\* The statistics counters of a redactor
RedactorCounters(rd) ==
  <<rd.lines_scanned, rd.lines_modified, rd.patterns_matched,
    rd.lines_prefiltered, rd.lines_sentinel_filtered>>

\* libplumbr_new with a pattern file (ssn, email) that loads and builds: the
\* handle after calloc, max_line_size set, and a redactor whose output
\* capacity is max_line_size.  fn, input, rejected and the two snapshots record
\* the last call on the handle.
LibInit ==
  /\ AcStart /\ ParNone /\ TpNone
  /\ arena = NULL
  /\ sseCall = NULL
  /\ io = NULL
  /\ startCall = NULL
  /\ query = NULL
  /\ ps = ParPatternSet
  /\ r = redactor_create(ps, PLUMBR_MAX_LINE_SIZE, FALSE)
  /\ ret = "none"
  /\ call = NULL
  /\ calls = 0
  /\ lib = [stats |-> [lines_processed |-> 0, lines_modified |-> 0, bytes_processed |-> 0],
            max_line_size |-> PLUMBR_MAX_LINE_SIZE,
            fn |-> "none", input |-> <<>>, rejected |-> FALSE, out_len |-> 0,
            stats_before |-> <<>>, counters_before |-> <<>>]

\* The record of a call on the handle
LibCalled(p, fn, input, rejected, out_len) ==
  [p EXCEPT !.fn = fn, !.input = input, !.rejected = rejected, !.out_len = out_len,
            !.stats_before = lib.stats, !.counters_before = RedactorCounters(r)]

\* libplumbr_redact(p, input, input_len, &output_len), malloc succeeding
LibRedact(input) ==
  /\ lib # NULL
  /\ calls < MaxLibCalls
  /\ calls' = calls + 1
  /\ IF Len(input) > PLUMBR_MAX_LINE_SIZE
     THEN /\ lib' = LibCalled(lib, "redact", input, TRUE, 0)
          /\ r' = r
     ELSE \E res \in redactor_process(r, ps, input) :
            /\ r' = res.r
            /\ lib' = LibCalled(
                 [lib EXCEPT
                    !.stats.lines_processed = @ + 1,
                    !.stats.bytes_processed = @ + Len(input),
                    !.stats.lines_modified =
                      IF res.out_len # Len(input) \/ res.output # input
                      THEN @ + 1 ELSE @],
                 "redact", input, FALSE, res.out_len)
  /\ UNCHANGED <<ps, ret, call, arena, sseCall, io, startCall, query>>
  /\ UNCHANGED <<acVars, parVars, tpVars>>

\* libplumbr_redact_inplace(p, buffer, len, capacity)
LibRedactInplace(buffer, capacity) ==
  /\ lib # NULL
  /\ calls < MaxLibCalls
  /\ calls' = calls + 1
  /\ \E res \in redactor_process(r, ps, buffer) :
       /\ r' = res.r
       /\ IF res.out_len >= capacity
          THEN lib' = LibCalled(lib, "inplace", buffer, TRUE, 0)
          ELSE lib' = LibCalled(
                 [lib EXCEPT
                    !.stats.lines_processed = @ + 1,
                    !.stats.bytes_processed = @ + Len(buffer),
                    !.stats.lines_modified =
                      IF res.out_len # Len(buffer) THEN @ + 1 ELSE @],
                 "inplace", buffer, FALSE, res.out_len)
  /\ UNCHANGED <<ps, ret, call, arena, sseCall, io, startCall, query>>
  /\ UNCHANGED <<acVars, parVars, tpVars>>

\* redactor_process(r, line, len, &out_len) called on the redactor itself:
\* it returns line or r->output_buf, never NULL
LibRedactorProcess(line) ==
  /\ lib # NULL
  /\ calls < MaxLibCalls
  /\ calls' = calls + 1
  /\ \E res \in redactor_process(r, ps, line) :
       /\ r' = res.r
       /\ lib' = LibCalled(lib, "process", line, FALSE, res.out_len)
  /\ UNCHANGED <<ps, ret, call, arena, sseCall, io, startCall, query>>
  /\ UNCHANGED <<acVars, parVars, tpVars>>

\* The lines: "", "ca", "Rx1", "u@c Rx1", and one of PLUMBR_MAX_LINE_SIZE + 1
\* bytes; the capacities of the caller's buffer
LibNext ==
  LET LibLines == { <<>>, <<99, 97>>, <<82, 120, 49>>,
                    <<117, 64, 99, 32, 82, 120, 49>>, LongLine }
      LibCapacities == {4, 2 * PLUMBR_MAX_LINE_SIZE}
  IN \/ \E input \in LibLines : LibRedact(input)
     \/ \E buffer \in LibLines, capacity \in LibCapacities :
          LibRedactInplace(buffer, capacity)
     \/ \E line \in LibLines : LibRedactorProcess(line)

SpecLib == LibInit /\ [][LibNext]_vars

\* C22: a call of redactor_process, libplumbr_redact or
\* libplumbr_redact_inplace with a line longer than the maximum line size
\* comes back with a null/error result, and no statistics counter of the
\* redactor or of the handle has changed.
C22_OverlongRejected ==
  (lib # NULL /\ lib.fn # "none" /\ Len(lib.input) > lib.max_line_size)
    => /\ lib.rejected
       /\ lib.stats = lib.stats_before
       /\ RedactorCounters(r) = lib.counters_before

\* ------------------------------------------------------------------------
\* Properties of the pattern set (Spec)
\* ------------------------------------------------------------------------

\* The patterns stored in a set: the slots below count
StoredPatterns(set) == [i \in 0 .. (set.count - 1) |-> set.patterns[i]]

\* A step of patterns_add: the only step that leaves r NULL and built as it
\* is and cannot be a patterns_load_file (which needs an empty unbuilt set)
\* when the set is built or not empty
AddStep == r = NULL /\ r' = NULL /\ ps'.built = ps.built /\ (ps.built \/ ps.count > 0)

\* C23: after a successful build patterns_add returns an error and leaves the
\* count, the pattern records and the automata as they are, and
\* ac_add_pattern on a built automaton returns false and leaves it as it is.
C23_AddAfterBuildFails ==
  /\ [](ps.built
          => /\ ps.automaton.built
             /\ \A e \in PatternPool :
                  patterns_add(ps, e.name, e.literal, e.regex, e.replacement)
                    = [ps |-> ps, ok |-> FALSE]
             /\ \A a \in {ps.automaton, ps.hot_ac, ps.sentinel} \ {NULL} :
                  a.built => \A e \in PatternPool :
                               ac_add_pattern(a, e.literal, ps.count)
                                 = [ac |-> a, ok |-> FALSE])
  /\ [][(ps.built /\ AddStep) => (ps' = ps /\ ret' = "false")]_vars

\* patterns_add was called on a built set with patterns and a hot automaton
C23_Witness ==
  /\ ps.built
  /\ ps.count > 0
  /\ ps.hot_ac # NULL
  /\ r = NULL
  /\ ret = "false"

\* C24: count <= capacity in every state, and a patterns_add on a full set
\* returns an error and leaves count and the stored patterns as they are.
C24_CountWithinCapacity ==
  /\ [](/\ ps.count <= ps.capacity
        /\ ps.count = ps.capacity
             => \A e \in PatternPool :
                  LET res == patterns_add(ps, e.name, e.literal, e.regex, e.replacement)
                  IN ~res.ok /\ res.ps = ps)
  /\ [][(ps.count = ps.capacity /\ AddStep)
          => (ret' = "false" /\ ps'.count = ps.count
              /\ StoredPatterns(ps') = StoredPatterns(ps))]_vars

\* patterns_add was called on a full set that is not built
C24_Witness ==
  /\ ps.count = ps.capacity
  /\ ~ps.built
  /\ ret = "false"

\* C25: every stored pattern i has id i, and a failed patterns_add (set
\* built, set full, regex that does not compile) changes neither count nor a
\* stored pattern, so the next successful add gets the id count.
C25_DenseIds ==
  /\ [](/\ \A i \in 0 .. (ps.count - 1) : ps.patterns[i].id = i
        /\ r = NULL
             => \A e \in PatternPool :
                  LET res == patterns_add(ps, e.name, e.literal, e.regex, e.replacement)
                  IN IF res.ok
                     THEN /\ res.ps.count = ps.count + 1
                          /\ res.ps.patterns[ps.count].id = ps.count
                     ELSE /\ res.ps.count = ps.count
                          /\ StoredPatterns(res.ps) = StoredPatterns(ps))
  /\ [][(r = NULL /\ r' = NULL /\ ps'.built = ps.built /\ ret' = "false")
          => (ps'.count = ps.count /\ StoredPatterns(ps') = StoredPatterns(ps))]_vars

\* patterns_add failed on the regex "(": its slot holds the name, count is 0
C25_Witness ==
  /\ ps.count = 0
  /\ ret = "false"
  /\ ps.patterns[0].name = <<98>>
  /\ ps.patterns[0].regex = NULL

\* C26: patterns_add rejects the empty regex: no stored pattern has it.
C26_EmptyRegexRejected ==
  \A i \in 0 .. (ps.count - 1) :
    ps.patterns[i].regex # NULL => ps.patterns[i].regex.text # <<>>

\* ------------------------------------------------------------------------
\* sse42_has_triggers on its own (src/amd/sse42_filter.c): both builds on
\* the same trigger array and line
\* ------------------------------------------------------------------------

\* The longest line: two 16-byte blocks and a tail
MaxSseLine == 33

\* The trigger arrays (16 bytes) with their counts: "R", "R@", "R" followed by
\* bytes that are no triggers, "ABCDEFGHIJKLMNOP"; the lines: 'a's with at
\* most one other byte ('R', '@', 'P', 'x' or NUL) at the edge of a block
SseInit ==
  LET SseTriggers ==
        { [triggers |-> Arr([t \in 0 .. 15 |-> IF t = 0 THEN 82 ELSE 0]), count |-> 1],
          [triggers |-> Arr([t \in 0 .. 15 |->
                               IF t = 0 THEN 82 ELSE IF t = 1 THEN 64 ELSE 0]),
           count |-> 2],
          [triggers |-> Arr([t \in 0 .. 15 |-> IF t = 0 THEN 82 ELSE 120]), count |-> 1],
          [triggers |-> Arr([t \in 0 .. 15 |-> 65 + t]), count |-> 16] }
      SseLines ==
        {[k \in 1 .. n |-> 97] : n \in 0 .. MaxSseLine}
          \cup {[k \in 1 .. n |-> IF k = p THEN b ELSE 97] :
                  n \in 1 .. MaxSseLine, p \in {1, 15, 16, 17, 31, 32, MaxSseLine},
                  b \in {82, 64, 80, 120, 0}}
  IN /\ AcStart /\ PlStart /\ ParNone /\ TpNone
     /\ lib = NULL
     /\ arena = NULL
     /\ io = NULL
     /\ startCall = NULL
     /\ query = NULL
     /\ \E tr \in SseTriggers, line \in SseLines :
          sseCall = [triggers |-> tr.triggers, trigger_count |-> tr.count, line |-> line,
                     vector |-> "none", scalar |-> "none"]

\* sse42_has_triggers(triggers, trigger_count, line, len), __SSE4_2__ build
SseHasTriggers ==
  /\ sseCall.vector = "none"
  /\ sseCall' = [sseCall EXCEPT !.vector =
               BoolStr(sse42_has_triggers(sseCall.triggers, sseCall.trigger_count, sseCall.line))]
  /\ UNCHANGED <<acVars, plVars, parVars, tpVars, lib, arena, io, startCall, query>>

\* sse42_has_triggers(triggers, trigger_count, line, len), scalar build
SseHasTriggersScalar ==
  /\ sseCall.scalar = "none"
  /\ sseCall' = [sseCall EXCEPT !.scalar =
           BoolStr(sse42_has_triggers_scalar(sseCall.triggers, sseCall.trigger_count, sseCall.line))]
  /\ UNCHANGED <<acVars, plVars, parVars, tpVars, lib, arena, io, startCall, query>>

SseNext == SseHasTriggers \/ SseHasTriggersScalar

SpecSse == SseInit /\ [][SseNext]_vars

\* Some byte of the line is one of the first trigger_count trigger bytes
SseTriggerPresent ==
  \E j \in DOMAIN sseCall.line :
    sseCall.line[j] \in {sseCall.triggers[t] : t \in 0 .. (sseCall.trigger_count - 1)}

\* C27: for a trigger set of 1 to 16 bytes and a line of any length,
\* sse42_has_triggers returns true exactly if some byte of the line is in the
\* trigger set, in the vector build and in the scalar build alike.
C27_TriggersExact ==
  (sseCall # NULL /\ sseCall.trigger_count \in 1 .. 16)
    => /\ sseCall.vector # "none" => sseCall.vector = BoolStr(SseTriggerPresent)
       /\ sseCall.scalar # "none" => sseCall.scalar = BoolStr(SseTriggerPresent)
       /\ (sseCall.vector # "none" /\ sseCall.scalar # "none") => sseCall.vector = sseCall.scalar

\* A line of 17 bytes whose only trigger byte is the last one, found by both
C27_Witness ==
  /\ sseCall # NULL
  /\ Len(sseCall.line) = 17
  /\ sseCall.line[17] = 82
  /\ sseCall.trigger_count = 1
  /\ sseCall.vector = "true"
  /\ sseCall.scalar = "true"

\* ------------------------------------------------------------------------
\* Properties of verify_ac_matches (Spec)
\* ------------------------------------------------------------------------

\* C28: every match record that verify_ac_matches hands to the rewrite step
\* has 0 <= start < end <= line_length.
C28_VerifiedWellFormed ==
  call # NULL
    => \A i \in DOMAIN call.verified :
         /\ 0 <= call.verified[i].start
         /\ call.verified[i].start < call.verified[i].end
         /\ call.verified[i].end <= Len(call.line)

\* The candidates of the full automaton whose regex evaluation ended with the
\* match limit
LimitHits(line) ==
  {i \in DOMAIN FullCandidates(line) :
     LET pat == patterns_get(ps, FullCandidates(line)[i].pattern_id)
     IN pat # NULL /\ pat.regex # NULL /\ pat.regex.limit}

\* The statistics counters of the Redactor, each with what it counts
RedactorCounterNames ==
  {"lines_scanned", "lines_modified", "patterns_matched", "lines_prefiltered",
   "lines_sentinel_filtered"}

\* The other fields of the Redactor
RedactorOtherFields ==
  {"output_buf", "output_capacity", "num_patterns", "match_data", "use_sse42",
   "triggers", "trigger_count"}

\* C29: when the regex evaluation of a candidate ends with a limit hit,
\* verify_ac_matches records no match for it and does not increment
\* patterns_matched for it, the other candidates of the line are still
\* verified, and the limit hit is counted in a counter of the redactor.
C29_LimitHitCounted ==
  (/\ call # NULL
   /\ call.path \in {"cold", "cold_unverified"}
   /\ r.lines_scanned = 1
   /\ LimitHits(call.line) # {})
    => /\ \A i \in DOMAIN call.verified :
            ~patterns_get(ps, call.verified[i].pattern_id).regex.limit
       /\ r.patterns_matched = Len(call.verified)
       /\ \A i \in DOMAIN FullCandidates(call.line) \ LimitHits(call.line) :
            LET c == FullCandidates(call.line)[i]
                pat == patterns_get(ps, c.pattern_id)
            IN pcre2_match(pat.regex, call.line, search_start_of(c)).rc > 0
                 => \E j \in DOMAIN call.verified :
                      call.verified[j].pattern_id = c.pattern_id
       /\ \E c \in DOMAIN r \ (RedactorCounterNames \cup RedactorOtherFields) :
            r[c] = Cardinality(LimitHits(call.line))

\* ---------------------------------------------------------------------------
\* The arena allocator (arena.c)
\* ---------------------------------------------------------------------------

RECURSIVE BitAnd(_, _)
BitAnd(a, b) ==
  IF a = 0 \/ b = 0 THEN 0
  ELSE (a % 2) * (b % 2) + 2 * BitAnd(a \div 2, b \div 2)

\* size of the largest arena of the model
MaxArenaSize == 16

\* arena_alloc without the test that the rounded size fits
arena_alloc_nofit(a, size) ==
  LET aligned_size == BitAnd(SizeT(size + 7), SIZE_MAX - 7)
      used == SizeT(a.used + aligned_size)
  IN [arena |-> [a EXCEPT !.used = used,
                          !.high_water = IF used > a.high_water THEN used
                                         ELSE a.high_water],
      ptr |-> a.base + a.used]

\* void *arena_alloc(Arena *arena, size_t size); a null pointer is 0
arena_alloc(a, size) ==
  IF size > SIZE_MAX - 7 THEN [arena |-> a, ptr |-> 0]
  ELSE
    LET aligned_size == BitAnd(SizeT(size + 7), SIZE_MAX - 7) IN
    IF aligned_size > SizeT(a.size - a.used) THEN [arena |-> a, ptr |-> 0]
    ELSE
      LET used == SizeT(a.used + aligned_size) IN
      [arena |-> [a EXCEPT !.used = used,
                           !.high_water = IF used > a.high_water THEN used
                                          ELSE a.high_water],
       ptr |-> a.base + a.used]

\* void *arena_alloc_aligned(Arena *arena, size_t size, size_t alignment)
arena_alloc_aligned(a, size, alignment) ==
  IF alignment = 0 \/ BitAnd(alignment, SizeT(alignment - 1)) # 0
  THEN [arena |-> a, ptr |-> 0]
  ELSE
    LET mask == alignment - 1
        current == SizeT(a.base + a.used)
        aligned == BitAnd(SizeT(current + mask), SIZE_MAX - mask)
        padding == SizeT(aligned - current)
    IN
    IF padding > SIZE_MAX - size THEN [arena |-> a, ptr |-> 0]
    ELSE
      LET total == padding + size IN
      IF total > SizeT(a.size - a.used) THEN [arena |-> a, ptr |-> 0]
      ELSE
        LET used == SizeT(a.used + total) IN
        [arena |-> [a EXCEPT !.used = used,
                             !.high_water = IF used > a.high_water THEN used
                                            ELSE a.high_water],
         ptr |-> a.base + a.used + padding]

\* void arena_reset(Arena *arena)
arena_reset(a) == [a EXCEPT !.used = 0]

\* ScratchArena scratch_begin(Arena *parent); the parent is the one arena
scratch_begin(parent) == [saved_used |-> parent.used]

\* scratch_end that empties the arena instead of restoring the saved offset
scratch_end_zero(parent, scratch) == [parent EXCEPT !.used = 0]

\* void scratch_end(ScratchArena *scratch)
scratch_end(parent, scratch) == [parent EXCEPT !.used = scratch.saved_used]

\* number of scratch scopes the caller keeps open at a time
MaxScopes == 2

\* arena_init on a mapping whose address is a multiple of 8 (mmap returns
\* page-aligned memory).  The arena is created before any pattern set or
\* automaton, so the other parts of the program do not exist yet.
\* arena.a is the Arena, op .. before describe the last call, scopes are the
\* ScratchArena values the caller holds (innermost last) with the offset seen
\* when each was opened, live are the non-empty regions handed out since the
\* last arena_reset or scratch_end.
ArenaInit ==
  /\ ac = NULL /\ acAdded = <<>> /\ acText = NoText /\ acMatches = <<>>
  /\ ps = NULL /\ r = NULL /\ ret = "none" /\ call = NULL /\ calls = 0
  /\ ParNone /\ TpNone
  /\ lib = NULL
  /\ sseCall = NULL
  /\ io = NULL
  /\ startCall = NULL
  /\ query = NULL
  /\ \E base \in {64, 72} :
       LET a == [base |-> base, size |-> MaxArenaSize, used |-> 0, high_water |-> 0,
                 owns_memory |-> TRUE]
       IN arena = [a |-> a, op |-> "arena_init", size |-> MaxArenaSize, alignment |-> 0,
                   ptr |-> 0, before |-> a, scopes |-> <<>>, live |-> <<>>]

ArenaCalled(op, size, alignment, res, scopes, live) ==
  /\ arena' = [a |-> res.arena, op |-> op, size |-> size, alignment |-> alignment,
               ptr |-> res.ptr, before |-> arena.a, scopes |-> scopes, live |-> live]
  /\ UNCHANGED <<acVars, plVars, parVars, tpVars, lib, sseCall, io, startCall, query>>

\* the regions handed out so far, with the one a successful call returns
ArenaLive(res, size) ==
  IF res.ptr # 0 /\ size > 0
  THEN Append(arena.live, [ptr |-> res.ptr, size |-> size])
  ELSE arena.live

ArenaAlloc(size) ==
  LET res == arena_alloc(arena.a, size)
  IN ArenaCalled("arena_alloc", size, 0, res, arena.scopes, ArenaLive(res, size))

ArenaAllocAligned(size, alignment) ==
  LET res == arena_alloc_aligned(arena.a, size, alignment)
  IN ArenaCalled("arena_alloc_aligned", size, alignment, res, arena.scopes,
                 ArenaLive(res, size))

ArenaReset ==
  ArenaCalled("arena_reset", 0, 0, [arena |-> arena_reset(arena.a), ptr |-> 0],
              arena.scopes, <<>>)

ScratchBegin ==
  /\ Len(arena.scopes) < MaxScopes
  /\ ArenaCalled("scratch_begin", 0, 0, [arena |-> arena.a, ptr |-> 0],
                 Append(arena.scopes, [scratch |-> scratch_begin(arena.a),
                                       used_at_begin |-> arena.a.used]),
                 arena.live)

\* the caller closes its scopes innermost first
ScratchEnd ==
  /\ arena.scopes # <<>>
  /\ ArenaCalled("scratch_end", 0, 0,
                 [arena |-> scratch_end(arena.a, arena.scopes[Len(arena.scopes)].scratch),
                  ptr |-> 0],
                 SubSeq(arena.scopes, 1, Len(arena.scopes) - 1), <<>>)

ArenaNext ==
  LET ArenaRequests == {0, 3, SIZE_MAX - 3}
      ArenaAlignedRequests ==
        { <<4, 4>>, <<8, 16>>, <<3, 0>>, <<3, 6>>, <<SIZE_MAX, 16>> }
  IN \/ \E size \in ArenaRequests : ArenaAlloc(size)
     \/ \E q \in ArenaAlignedRequests : ArenaAllocAligned(q[1], q[2])
     \/ ArenaReset
     \/ ScratchBegin
     \/ ScratchEnd

SpecArena == ArenaInit /\ [][ArenaNext]_vars

IsPowerOfTwo(n) == \E k \in 0 .. (SizeBits - 1) : n = 2 ^ k

\* C30: on an arena whose base is a multiple of 8, every pointer returned by
\* arena_alloc is a multiple of 8 and every pointer returned by
\* arena_alloc_aligned is a multiple of the requested power of two; with an
\* alignment that is zero or not a power of two arena_alloc_aligned returns
\* NULL and leaves the arena as it was.
C30_AllocAligned ==
  (arena # NULL /\ arena.a.base % 8 = 0)
    => /\ (arena.op = "arena_alloc" /\ arena.ptr # 0) => arena.ptr % 8 = 0
       /\ (arena.op = "arena_alloc_aligned" /\ arena.ptr # 0)
            => arena.ptr % arena.alignment = 0
       /\ (arena.op = "arena_alloc_aligned" /\ ~IsPowerOfTwo(arena.alignment))
            => arena.ptr = 0 /\ arena.a = arena.before

\* C31: scratch_end puts used back to the value it had when the scope was
\* opened, whatever was allocated in between and also for nested scopes closed
\* innermost first; arena_reset sets used to 0; neither lowers high_water.
C31_ScratchRestores ==
  [][arena' # NULL
       => /\ arena'.op = "scratch_end"
               => /\ arena.scopes # <<>>
                  /\ arena'.a.used = arena.scopes[Len(arena.scopes)].used_at_begin
                  /\ arena'.a.high_water >= arena.a.high_water
          /\ arena'.op = "arena_reset"
               => /\ arena'.a.used = 0
                  /\ arena'.a.high_water >= arena.a.high_water]_vars

\* an inner scope with allocations in it was closed while an outer scope that
\* was opened at another offset stays open
C31_Witness ==
  /\ arena # NULL
  /\ arena.op = "scratch_end"
  /\ Len(arena.scopes) = 1
  /\ arena.a.used > arena.scopes[1].used_at_begin
  /\ arena.before.used > arena.a.used
  /\ arena.a.high_water > arena.a.used

\* the padding an aligned request needs in front of it
ArenaPadding(a, alignment) ==
  (alignment - ((a.base + a.used) % alignment)) % alignment

\* the request of the last call had no room in the arena it was made on
ArenaNoRoom ==
  \/ /\ arena.op = "arena_alloc"
     /\ arena.size > arena.before.size - arena.before.used
  \/ /\ arena.op = "arena_alloc_aligned"
     /\ IsPowerOfTwo(arena.alignment)
     /\ ArenaPadding(arena.before, arena.alignment) + arena.size
          > arena.before.size - arena.before.used

\* C40: used <= size and high_water >= used in every state; the regions handed
\* out since the last arena_reset or scratch_end are pairwise disjoint and lie
\* inside [base, base + size); an allocation that has no room, or whose size
\* computation would overflow, returns NULL and leaves used and high_water as
\* they were.
C40_ArenaInvariant ==
  arena # NULL
    => /\ arena.a.used <= arena.a.size
       /\ arena.a.high_water >= arena.a.used
       /\ \A i \in DOMAIN arena.live :
            /\ arena.a.base <= arena.live[i].ptr
            /\ arena.live[i].ptr + arena.live[i].size <= arena.a.base + arena.a.size
       /\ \A i, j \in DOMAIN arena.live :
            i < j => \/ arena.live[i].ptr + arena.live[i].size <= arena.live[j].ptr
                     \/ arena.live[j].ptr + arena.live[j].size <= arena.live[i].ptr
       /\ ArenaNoRoom => arena.ptr = 0
       /\ (arena.op \in {"arena_alloc", "arena_alloc_aligned"} /\ arena.ptr = 0)
            => /\ arena.a.used = arena.before.used
               /\ arena.a.high_water = arena.before.high_water

\* two regions are live and a request of 3 bytes that has no room was refused
C40_Witness ==
  /\ arena # NULL
  /\ Len(arena.live) >= 2
  /\ arena.op = "arena_alloc"
  /\ arena.size = 3
  /\ ArenaNoRoom
  /\ arena.ptr = 0

\* ---------------------------------------------------------------------------
\* Buffered line input (io.c)
\* ---------------------------------------------------------------------------

\* 64 * 1024 in include/config.h, the same as PLUMBR_MAX_LINE_SIZE
PLUMBR_READ_BUFFER_SIZE == PLUMBR_MAX_LINE_SIZE

\* longest byte stream behind read_fd
MaxStream == 5

\* io_init: read_buf and line_carry hold their first read_len and
\* line_carry_len bytes; positions count from 0
io_init ==
  [read_buf |-> <<>>, read_pos |-> 0, read_len |-> 0, read_eof |-> FALSE,
   line_carry |-> <<>>, line_carry_len |-> 0, bytes_read |-> 0, lines_processed |-> 0]

\* static bool io_refill(IOContext *ctx): every outcome of the read() it makes
\* on the rest of the stream.  read() hands over any positive number of the
\* bytes that are left, up to the space asked for, and 0 at the end.
io_refill(ctx, stream) ==
  IF ctx.read_eof THEN {[ctx |-> ctx, stream |-> stream, ok |-> FALSE]}
  ELSE
    LET moved ==
          IF ctx.read_pos > 0 /\ ctx.read_len > ctx.read_pos
          THEN [ctx EXCEPT !.read_buf = SubSeq(ctx.read_buf, ctx.read_pos + 1, ctx.read_len),
                           !.read_len = ctx.read_len - ctx.read_pos,
                           !.read_pos = 0]
          ELSE [ctx EXCEPT !.read_buf = <<>>, !.read_len = 0, !.read_pos = 0]
        space == PLUMBR_READ_BUFFER_SIZE - moved.read_len
    IN
    IF space = 0 THEN {[ctx |-> moved, stream |-> stream, ok |-> TRUE]}
    ELSE IF stream = <<>>
    THEN {[ctx |-> [moved EXCEPT !.read_eof = TRUE], stream |-> stream,
           ok |-> moved.read_len > moved.read_pos]}
    ELSE {[ctx |-> [moved EXCEPT !.read_buf = moved.read_buf \o SubSeq(stream, 1, n),
                                 !.read_len = moved.read_len + n,
                                 !.bytes_read = moved.bytes_read + n],
           stream |-> SubSeq(stream, n + 1, Len(stream)),
           ok |-> TRUE] :
            n \in 1 .. (IF space < Len(stream) THEN space ELSE Len(stream))}

\* memchr(start, '\n', avail): the position of the first newline at or after
\* read_pos, -1 if there is none
io_memchr(ctx) ==
  LET hits == {p \in ctx.read_pos .. (ctx.read_len - 1) : ctx.read_buf[p + 1] = 10}
  IN IF hits = {} THEN -1 ELSE CHOOSE p \in hits : \A q \in hits : p <= q

\* the end of io_read_line after either loop: what is left in the carry buffer
io_read_eof(ctx, stream) ==
  IF ctx.line_carry_len > 0
  THEN [ctx |-> [ctx EXCEPT !.lines_processed = ctx.lines_processed + 1,
                            !.line_carry_len = 0, !.line_carry = <<>>],
        stream |-> stream, line |-> ctx.line_carry, null |-> FALSE]
  ELSE [ctx |-> ctx, stream |-> stream, line |-> <<>>, null |-> TRUE]

RECURSIVE io_read_line(_, _)
RECURSIVE io_carry_loop(_, _)
RECURSIVE io_carry_body(_, _)
RECURSIVE io_fast_loop(_, _)
RECURSIVE io_fast_body(_, _)

\* the body of the while loop of the carry path
io_carry_body(ctx, stream) ==
  LET nl == io_memchr(ctx)
      avail == ctx.read_len - ctx.read_pos
  IN
  IF nl # -1
  THEN
    LET chunk_len == nl - ctx.read_pos
        max_chunk == PLUMBR_MAX_LINE_SIZE - ctx.line_carry_len - 1
    IN
    IF chunk_len > max_chunk
    THEN io_read_line([ctx EXCEPT !.read_pos = nl + 1, !.line_carry_len = 0,
                                  !.line_carry = <<>>,
                                  !.lines_processed = ctx.lines_processed + 1],
                      stream)
    ELSE {[ctx |-> [ctx EXCEPT !.read_pos = nl + 1,
                               !.lines_processed = ctx.lines_processed + 1,
                               !.line_carry_len = 0, !.line_carry = <<>>],
           stream |-> stream,
           line |-> ctx.line_carry \o SubSeq(ctx.read_buf, ctx.read_pos + 1, nl),
           null |-> FALSE]}
  ELSE
    LET remaining_space == PLUMBR_MAX_LINE_SIZE - ctx.line_carry_len - 1
        safe_avail == IF avail > remaining_space THEN remaining_space ELSE avail
    IN
    IF avail > remaining_space /\ safe_avail = 0
    THEN io_carry_loop([ctx EXCEPT !.line_carry_len = 0, !.line_carry = <<>>,
                                   !.read_pos = ctx.read_len],
                       stream)
    ELSE io_carry_loop(
           [ctx EXCEPT !.line_carry =
                         ctx.line_carry
                           \o SubSeq(ctx.read_buf, ctx.read_pos + 1, ctx.read_pos + safe_avail),
                       !.line_carry_len = ctx.line_carry_len + safe_avail,
                       !.read_pos = ctx.read_len],
           stream)

\* while (read_pos < read_len || io_refill(ctx)) of the carry path
io_carry_loop(ctx, stream) ==
  IF ctx.read_pos < ctx.read_len THEN io_carry_body(ctx, stream)
  ELSE UNION { IF o.ok THEN io_carry_body(o.ctx, o.stream)
               ELSE {io_read_eof(o.ctx, o.stream)} : o \in io_refill(ctx, stream) }

\* the body of the while loop of the fast path
io_fast_body(ctx, stream) ==
  LET nl == io_memchr(ctx)
      avail == ctx.read_len - ctx.read_pos
  IN
  IF nl # -1
  THEN {[ctx |-> [ctx EXCEPT !.read_pos = nl + 1,
                             !.lines_processed = ctx.lines_processed + 1],
         stream |-> stream,
         line |-> SubSeq(ctx.read_buf, ctx.read_pos + 1, nl),
         null |-> FALSE]}
  ELSE IF avail > 0
  THEN
    IF avail >= PLUMBR_MAX_LINE_SIZE
    THEN io_fast_loop([ctx EXCEPT !.read_pos = ctx.read_len], stream)
    ELSE io_fast_loop([ctx EXCEPT !.line_carry =
                                    SubSeq(ctx.read_buf, ctx.read_pos + 1, ctx.read_len),
                                  !.line_carry_len = avail,
                                  !.read_pos = ctx.read_len],
                      stream)
  ELSE io_fast_loop(ctx, stream)

\* while (read_pos < read_len || io_refill(ctx)) of the fast path
io_fast_loop(ctx, stream) ==
  IF ctx.read_pos < ctx.read_len THEN io_fast_body(ctx, stream)
  ELSE UNION { IF o.ok THEN io_fast_body(o.ctx, o.stream)
               ELSE {io_read_eof(o.ctx, o.stream)} : o \in io_refill(ctx, stream) }

\* const char *io_read_line(IOContext *ctx, size_t *out_len): every outcome,
\* one for each way the reads it makes can split the stream
io_read_line(ctx, stream) ==
  IF ctx.line_carry_len > 0 THEN io_carry_loop(ctx, stream)
  ELSE io_fast_loop(ctx, stream)

\* io_init on a descriptor with some byte stream of 'a' and '\n' behind it
IoInit ==
  /\ AcStart /\ PlStart /\ ParNone /\ TpNone
  /\ lib = NULL
  /\ arena = NULL
  /\ sseCall = NULL
  /\ startCall = NULL
  /\ query = NULL
  /\ \E n \in 0 .. MaxStream :
       \E input \in [1 .. n -> {97, 10}] :
         io = [ctx |-> io_init, stream |-> input, input |-> input,
               got |-> <<>>, done |-> FALSE]

\* one io_read_line call; got collects the lines returned so far
IoReadLine ==
  /\ \E o \in io_read_line(io.ctx, io.stream) :
       io' = [io EXCEPT !.ctx = o.ctx, !.stream = o.stream,
                        !.got = IF o.null THEN io.got ELSE Append(io.got, o.line),
                        !.done = o.null]
  /\ UNCHANGED <<acVars, plVars, parVars, tpVars, lib, arena, sseCall, startCall, query>>

IoNext == IoReadLine

SpecIo == IoInit /\ [][IoNext]_vars

\* the lines of a byte stream: the pieces between newlines, and what follows
\* the last newline if it is not empty
RECURSIVE LinesOf(_, _)
LinesOf(bytes, current) ==
  IF bytes = <<>> THEN (IF current = <<>> THEN <<>> ELSE <<current>>)
  ELSE IF Head(bytes) = 10 THEN <<current>> \o LinesOf(Tail(bytes), <<>>)
  ELSE LinesOf(Tail(bytes), Append(current, Head(bytes)))

\* C32: whatever the stream and however read() splits it, the io_read_line
\* calls return each line once, in input order and complete, the unterminated
\* rest as a last line, and then NULL; lines_processed is the number of lines
\* returned.
C32_LinesExactlyOnce ==
  io # NULL
    => LET expected == LinesOf(io.input, <<>>) IN
       /\ Len(io.got) <= Len(expected)
       /\ \A i \in DOMAIN io.got : io.got[i] = expected[i]
       /\ io.done => io.got = expected
       /\ io.ctx.lines_processed = Len(io.got)

\* ---------------------------------------------------------------------------
\* The statistics of a redactor over several calls
\* ---------------------------------------------------------------------------

\* redactor_process calls made on the redactor
MaxStatCalls == 3

\* A redactor over the built set of ParPatternFile.  call holds the last line,
\* whether the call returned r->output_buf (redactor_apply ran), the number k
\* of calls since the last redactor_reset_stats, how many of them returned the
\* output buffer, and whether redactor_reset_stats was called at all.
StatsInit ==
  /\ AcStart /\ ParNone /\ TpNone /\ AuxNone
  /\ ps = ParPatternSet
  /\ \E cap \in OutputCapacities, sse \in BOOLEAN : r = redactor_create(ps, cap, sse)
  /\ ret = "none"
  /\ call = [line |-> <<>>, rewritten |-> FALSE, k |-> 0, k_rewritten |-> 0,
             reset |-> FALSE]
  /\ calls = 0

\* redactor_process(r, line, len, &out_len)
StatsProcess(line) ==
  /\ calls < MaxStatCalls
  /\ calls' = calls + 1
  /\ LET rewritten == redactor_scan(r, ps, line).verified # <<>>
     IN \E res \in redactor_process(r, ps, line) :
          /\ r' = res.r
          /\ call' = [line |-> line, rewritten |-> rewritten, k |-> call.k + 1,
                      k_rewritten |-> call.k_rewritten + (IF rewritten THEN 1 ELSE 0),
                      reset |-> call.reset]
  /\ UNCHANGED <<ps, ret>>
  /\ UNCHANGED <<acVars, parVars, tpVars, auxVars>>

\* redactor_reset_stats(r)
StatsReset ==
  /\ r' = redactor_reset_stats(r)
  /\ call' = [call EXCEPT !.k = 0, !.k_rewritten = 0, !.reset = TRUE]
  /\ UNCHANGED <<ps, ret, calls>>
  /\ UNCHANGED <<acVars, parVars, tpVars, auxVars>>

StatsNext ==
  \/ calls < MaxStatCalls /\ \E line \in Lines : StatsProcess(line)
  \/ StatsReset

SpecStats == StatsInit /\ [][StatsNext]_vars

\* C33: after redactor_reset_stats and k calls of redactor_process,
\* lines_scanned is k, whatever path each call took, and lines_modified is the
\* number of those calls that returned a rewritten line in the output buffer.
C33_StatsAfterReset ==
  (call # NULL /\ "reset" \in DOMAIN call /\ call.reset)
    => /\ r.lines_scanned = call.k
       /\ r.lines_modified = call.k_rewritten

\* one call before the reset and two after it, one of which rewrote its line
C33_Witness ==
  /\ call # NULL
  /\ "reset" \in DOMAIN call
  /\ call.reset
  /\ calls = 3
  /\ call.k = 2
  /\ call.k_rewritten = 1
  /\ r.lines_prefiltered + r.lines_sentinel_filtered > 0

\* C34: redactor_reset_stats sets every statistics counter of the redactor to
\* zero: lines scanned, lines modified, regex confirmations, and the lines
\* rejected by the pre-filter and by the sentinel.
C34_ResetZeroesAll ==
  (call # NULL /\ "reset" \in DOMAIN call /\ call.reset /\ call.k = 0)
    => \A c \in RedactorCounterNames : r[c] = 0

\* ---------------------------------------------------------------------------
\* The regex search start of verify_ac_matches on its own
\* ---------------------------------------------------------------------------

\* longest line a candidate is taken from
MaxStartLine == 24

\* A candidate of ac_search_all on a line of len bytes: a literal of length
\* bytes whose last byte is at index position (aho_corasick.c:498)
StartInit ==
  /\ AcStart /\ PlStart /\ ParNone /\ TpNone
  /\ lib = NULL
  /\ arena = NULL
  /\ sseCall = NULL
  /\ io = NULL
  /\ query = NULL
  /\ \E len \in 1 .. MaxStartLine :
       \E position \in 0 .. (len - 1) :
         \E length \in 1 .. (position + 1) :
           startCall = [len |-> len, m |-> [position |-> position, length |-> length],
                        search_start |-> -1]

\* the search_start computation of verify_ac_matches for one candidate
StartCompute ==
  /\ startCall.search_start = -1
  /\ startCall' = [startCall EXCEPT !.search_start = search_start_of(startCall.m)]
  /\ UNCHANGED <<acVars, plVars, parVars, tpVars, lib, arena, sseCall, io, query>>

StartNext == StartCompute

SpecStart == StartInit /\ [][StartNext]_vars

\* C35: for a candidate with end position p and literal length l the search
\* start is max(0, p - l - 10); it is not a wrapped-around value and it is not
\* beyond the length of the line.
C35_SearchStart ==
  (startCall # NULL /\ startCall.search_start # -1)
    => LET d == startCall.m.position - startCall.m.length - 10 IN
       /\ startCall.search_start = (IF d > 0 THEN d ELSE 0)
       /\ startCall.search_start <= startCall.len

\* a candidate far enough into the line for p - l - 10 to be positive
C35_Witness ==
  /\ startCall # NULL
  /\ startCall.search_start > 0
  /\ startCall.m.length > 1

\* ---------------------------------------------------------------------------
\* The query modes of a built automaton, and the caps of the match arrays
\* ---------------------------------------------------------------------------

\* largest max_matches / max_verified passed in a query
MaxCap == 2

\* The first final state on the output chain from ms, 0 if there is none
RECURSIVE ac_chain_first(_, _)
ac_chain_first(meta, ms) ==
  IF ms <= 0 THEN 0
  ELSE IF meta[ms].is_final THEN ms
  ELSE ac_chain_first(meta, Int16(meta[ms].output))

\* the for loop of ac_search_first in the PLUMBR_DFA_COMPRESSED build: always
\* the root row for state 0 and compressed_lookup for the rest
RECURSIVE ac_first_loop(_, _, _, _)
ac_first_loop(a, text, i, state) ==
  IF i >= Len(text) THEN [found |-> FALSE, match |-> NULL, fault |-> FALSE]
  ELSE LET c == text[i + 1]
           next == IF state = 0 THEN a.root_row[c]
                   ELSE compressed_lookup(a.compressed, a.row_index, state, c)
           ms == ac_chain_first(a.meta, next)
       IN IF ms > 0
          THEN [found |-> TRUE,
                match |-> [position |-> i, pattern_id |-> a.meta[ms].pattern_id,
                           length |-> a.meta[ms].depth],
                fault |-> FALSE]
          ELSE ac_first_loop(a, text, i + 1, next)

\* bool ac_search_first(ac, text, len, out_match): its outcomes.  When the
\* automaton was built flat, root_row is NULL and the first transition reads
\* through it: the call faults, or goes on with whatever was read.
ac_search_first(a, text) ==
  IF ~a.built \/ Len(text) = 0
  THEN {[found |-> FALSE, match |-> NULL, fault |-> FALSE]}
  ELSE IF a.root_row = NULL
  THEN {[found |-> f, match |-> NULL, fault |-> TRUE] : f \in BOOLEAN}
  ELSE {ac_first_loop(a, text, 0, 0)}

\* ac_create, ac_set_force_flat for a flat one, two ac_add_pattern, ac_build
QueryAutomaton(lits, flat) ==
  LET a0 == IF flat THEN ac_set_force_flat(ac_create) ELSE ac_create
      a1 == ac_add_pattern(a0, lits[1], 0).ac
      a2 == ac_add_pattern(a1, lits[2], 1).ac
  IN ac_build(a2).ac

\* A built automaton over "he"/"she", "his"/"hers" or "he"/"hers", compressed
\* or flat, with a text; a redactor over the built set of ParPatternFile with
\* a line ("Rx1 u@c", "Rx1Rx1", "ca").  No query was made yet.
QueryInit ==
  /\ ParNone /\ TpNone
  /\ lib = NULL /\ arena = NULL /\ sseCall = NULL /\ io = NULL /\ startCall = NULL
  /\ \E lits \in { << <<104, 101>>, <<115, 104, 101>> >>,
                   << <<104, 105, 115>>, <<104, 101, 114, 115>> >>,
                   << <<104, 101>>, <<104, 101, 114, 115>> >> },
        flat \in BOOLEAN :
       /\ ac = QueryAutomaton(lits, flat)
       /\ acAdded = <<[pattern |-> lits[1], pattern_id |-> 0, ok |-> TRUE],
                      [pattern |-> lits[2], pattern_id |-> 1, ok |-> TRUE]>>
  /\ acText = NoText
  /\ acMatches = <<>>
  /\ ps = ParPatternSet
  /\ r = redactor_create(ps, 32, FALSE)
  /\ ret = "none"
  /\ call = NULL
  /\ calls = 0
  /\ \E text \in AcTexts \cup {<<>>},
        line \in { <<82, 120, 49, 32, 117, 64, 99>>, <<82, 120, 49, 82, 120, 49>>,
                   <<99, 97>> } :
       query = [text |-> text, max |-> -1, all |-> <<>>,
                first |-> [called |-> FALSE, found |-> FALSE, match |-> NULL,
                           fault |-> FALSE],
                has |-> [called |-> FALSE, found |-> FALSE],
                line |-> line, vmax |-> -1, candidates |-> <<>>, verified |-> <<>>]

QueryFrame == UNCHANGED <<acVars, plVars, parVars, tpVars, lib, arena, sseCall, io, startCall>>

\* ac_search_all(ac, text, len, matches, max_matches)
QuerySearchAll(max_matches) ==
  /\ query.max = -1
  /\ query' = [query EXCEPT !.max = max_matches,
                            !.all = ac_search_all(ac, query.text, max_matches)]
  /\ QueryFrame

\* ac_search_first(ac, text, len, &out_match)
QuerySearchFirst ==
  /\ ~query.first.called
  /\ \E o \in ac_search_first(ac, query.text) :
       query' = [query EXCEPT !.first = [called |-> TRUE, found |-> o.found,
                                         match |-> o.match, fault |-> o.fault]]
  /\ QueryFrame

\* ac_search_has_match(ac, text, len)
QuerySearchHasMatch ==
  /\ ~query.has.called
  /\ query' = [query EXCEPT !.has = [called |-> TRUE,
                                     found |-> ac_search_has_match(ac, query.text)]]
  /\ QueryFrame

\* verify_ac_matches(r, line, len, ac_matches, num_ac, verified, max_verified)
\* on the candidates of the full automaton
QueryVerify(max_verified) ==
  /\ query.vmax = -1
  /\ LET candidates == ac_search_all(ps.automaton, query.line, PLUMBR_MAX_MATCHES_PER_LINE)
     IN query' = [query EXCEPT !.vmax = max_verified,
                               !.candidates = candidates,
                               !.verified = verify_ac_matches(r, ps, query.line, candidates,
                                                              1, <<>>, max_verified)]
  /\ QueryFrame

QueryNext ==
  \/ \E max_matches \in 0 .. MaxCap : QuerySearchAll(max_matches)
  \/ QuerySearchFirst
  \/ QuerySearchHasMatch
  \/ \E max_verified \in 0 .. MaxCap : QueryVerify(max_verified)

SpecQuery == QueryInit /\ [][QueryNext]_vars

\* every match of the text, in emission order
QueryTotal == ac_search_all(ac, query.text, PLUMBR_MAX_MATCHES_PER_LINE)

\* C36: ac_search_all writes no more than max_matches entries and returns
\* min(total, max_matches) of them, the first ones in emission order;
\* verify_ac_matches records no more than max_verified matches.
C36_CapsRespected ==
  query # NULL
    => /\ query.max # -1
            => /\ Len(query.all) <= query.max
               /\ Len(query.all) = (IF Len(QueryTotal) < query.max THEN Len(QueryTotal)
                                    ELSE query.max)
               /\ query.all = SubSeq(QueryTotal, 1, Len(query.all))
       /\ query.vmax # -1 => Len(query.verified) <= query.vmax

\* both caps cut something off: a text with two matches searched with
\* max_matches 1, and a line with two confirmed candidates verified with
\* max_verified 1
C36_Witness ==
  /\ query # NULL
  /\ query.max = 1
  /\ Len(query.all) = 1
  /\ Len(QueryTotal) >= 2
  /\ query.vmax = 1
  /\ Len(query.verified) = 1
  /\ Len(verify_ac_matches(r, ps, query.line, query.candidates, 1, <<>>,
                           PLUMBR_MAX_MATCHES_PER_LINE)) >= 2

\* C37: on a built automaton, compressed or flat, ac_search_has_match is true
\* iff ac_search_all reports a match iff ac_search_first is true, the match of
\* ac_search_first is the first one of ac_search_all, and no query reads a
\* table the representation did not build.
C37_QueryModesAgree ==
  query # NULL
    => /\ query.has.called => (query.has.found <=> QueryTotal # <<>>)
       /\ query.first.called
            => /\ ~query.first.fault
               /\ query.first.found <=> QueryTotal # <<>>
               /\ query.first.found => query.first.match = QueryTotal[1]

\* ---------------------------------------------------------------------------
\* redactor_apply and the bounds of output_buf
\* ---------------------------------------------------------------------------

\* The output_capacity values given to redactor_create: none, one byte, the
\* length of a line and one more, and those around the replacement lengths
\* (14 for ssn, 16 for email)
ApplyCapacities == {0, 1, 4, 5, 15, 19}

\* A built pattern set (ssn, email) and a redactor over it with an output_buf
\* of any of these capacities
CapInit ==
  /\ AcStart /\ ParNone /\ TpNone /\ AuxNone
  /\ ps = ParPatternSet
  /\ \E cap \in ApplyCapacities : r = redactor_create(ps, cap, FALSE)
  /\ ret = "none"
  /\ call = NULL
  /\ calls = 0

SpecCap == CapInit /\ [][ApplyNext]_vars

\* The indices of output_buf that redactor_apply stored to: those of the
\* copied bytes, 0 .. out_pos-1, and that of the terminating NUL, out_pos
ApplyWritten == 0 .. call.out_len

\* C39: redactor_apply writes no byte of output_buf, the terminating NUL
\* included, at an index >= output_capacity, and the out_len it returns is
\* less than output_capacity.
C39_OutputInBounds ==
  call # NULL
    => /\ \A k \in ApplyWritten : k < r.output_capacity
       /\ call.out_len < r.output_capacity

====
